---- MODULE Spec2Model ----
(***************************************************************************)
(* A model of the FileShare bot of src/main.py: the admin's post wizard    *)
(* (user_states / post_cache), the two channel registries and the file     *)
(* share vault kept in MongoDB, the broadcast loop of execute_broadcast    *)
(* and the forced-subscription gate of user_start_handler.                 *)
(*                                                                         *)
(* Python dicts are functions whose DOMAIN is the set of keys present.     *)
(* Mongo collections are sequences in insertion order.  Texts are          *)
(* sequences of one-character strings, so that split and strip are         *)
(* computed, not assumed.  Python's None is the string "None" for ids and  *)
(* the empty sequence for texts (Telegram never delivers an empty text).   *)
(*                                                                         *)
(* The collections live in MongoDB and the chat's old keyboards live in    *)
(* Telegram, so both survive a restart of the process: after construction  *)
(* the collections may hold any records earlier runs stored, and any       *)
(* callback button the bot ever offered may still be pressed.  The         *)
(* in-memory dicts user_states and post_cache start empty.                 *)
(***************************************************************************)
EXTENDS Integers, Sequences, FiniteSets, TLC

VARIABLES
    user_states,             \* dict user id -> wizard step            (main.py:91)
    post_cache,              \* dict user id -> post being built       (main.py:94)
    must_join_channels_col,  \* Mongo collection of gate channels      (main.py:66)
    post_channels_col,       \* Mongo collection of post channels      (main.py:67)
    fileshares_col,          \* Mongo collection of file share records (main.py:68)
    chat_member,             \* Telegram: the end user's status in each channel
    prompted,                \* Telegram: (user, token) pairs answered a join prompt
    previewed,               \* Telegram: the last preview sent of a user's draft
    bc,                      \* the locals of a running execute_broadcast
    parked,                  \* a handler run suspended at an await
    last                     \* the last update handled and what the bot answered

vars == <<user_states, post_cache, must_join_channels_col, post_channels_col,
          fileshares_col, chat_member, prompted, previewed, bc, parked,
          last>>

----------------------------------------------------------------------------
(* Bounds of the model.                                                    *)

WizButtons == 1      \* wizard runs: longest button list of a draft
WizShares == 1       \* wizard runs: most file share records stored
WizChannels == 1     \* wizard runs: most descriptors in a registry
GateChannels == 2    \* gate runs: most channels in the gate registry
VaultShares == 2     \* vault runs: most records stored, most draft buttons
MaxButtons == 3      \* layout runs: most buttons in a draft
DeliverTargets == 3  \* delivery runs: most channels in the post registry
RegChannels == 2     \* registry runs: most channels in either registry
ComposeButtons == 3  \* composing runs: most buttons in a draft
AccessButtons == 1   \* access runs: most buttons in a draft
AccessShares == 1    \* access runs: most file share records stored
AccessChannels == 1  \* access runs: most descriptors in a registry

----------------------------------------------------------------------------
(* Actors, chats and messages.                                             *)

ADMIN_USER_ID == "admin"
Users == {"admin", "user"}
BotUsername == "bot"

\* The channels Telegram knows: one public (it has a username), one private.
Chats ==
    { [id |-> "c1", title |-> "One", username |-> "one"],
      [id |-> "c2", title |-> "Two", username |-> "None"],
      [id |-> "c3", title |-> "Three", username |-> "three"] }

ChatIds == {c.id : c \in Chats}

NoChat == [id |-> "None", title |-> "None", username |-> "None"]

Tokens == {"t1", "t2"}

\* Texts, as sequences of characters.
T_hi == <<"h", "i">>
T_btn == <<"a", " ", "-", " ", "u">>
T_two == <<"a", "-", "u", "\n", "x", "\n", " ", "b", "-", "v", "-", "w">>
T_cap == <<"c">>
T_plain == <<"x", "\n", "y", " ">>
NoText == <<>>

\* A message, with the attributes of pyrogram's Message the handlers read.
Msg(kind, text, caption, ents, file_id, file_name, fwd) ==
    [kind |-> kind, text |-> text, caption |-> caption, entities |-> ents,
     file_id |-> file_id, file_name |-> file_name, forward_from_chat |-> fwd]

TextMsg(t) == Msg("text", t, NoText, <<>>, "None", "None", NoChat)

M_hi == Msg("text", T_hi, NoText, <<"bold">>, "None", "None", NoChat)
M_photo == Msg("photo", NoText, T_cap, <<"italic">>, "f1", "None", NoChat)
M_doc == Msg("document", NoText, NoText, <<>>, "f2", "None", NoChat)
M_sticker == Msg("sticker", NoText, NoText, <<>>, "f3", "None", NoChat)
\* A service message (a pin, a timer change): neither text nor media.
M_service == Msg("service", NoText, NoText, <<>>, "None", "None", NoChat)

\* message.text, message.caption: None is the empty sequence.
HasText(m) == m.text # NoText
HasCaption(m) == m.caption # NoText
\* message.media: any attachment, a sticker included.
HasMedia(m) == m.kind \notin {"text", "service"}
\* message.entities is set on texts, message.caption_entities on captions.
Entities(m) == IF m.kind = "text" THEN m.entities ELSE <<>>
CaptionEntities(m) == IF m.kind = "text" THEN <<>> ELSE m.entities

----------------------------------------------------------------------------
(* str.split and str.strip on character sequences.                         *)

RECURSIVE IndexOf(_, _, _)
\* The first index >= i of s holding character c, 0 if there is none.
IndexOf(s, c, i) ==
    IF i > Len(s) THEN 0
    ELSE IF s[i] = c THEN i
    ELSE IndexOf(s, c, i + 1)

Contains(s, c) == IndexOf(s, c, 1) # 0

RECURSIVE Split(_, _)
\* s.split(c): the pieces between the occurrences of c.
Split(s, c) ==
    LET k == IndexOf(s, c, 1)
    IN IF k = 0 THEN <<s>>
       ELSE <<SubSeq(s, 1, k - 1)>> \o Split(SubSeq(s, k + 1, Len(s)), c)

\* A variant of split that splits at the last occurrence of c.
Split1_last(s, c) ==
    LET ks == {i \in 1..Len(s) : s[i] = c}
        k == IF ks = {} THEN 0 ELSE CHOOSE i \in ks : \A j \in ks : j <= i
    IN IF k = 0 THEN <<s>>
       ELSE <<SubSeq(s, 1, k - 1), SubSeq(s, k + 1, Len(s))>>

\* s.split(c, 1): at most one split, at the first occurrence of c.
Split1(s, c) ==
    LET k == IndexOf(s, c, 1)
    IN IF k = 0 THEN <<s>>
       ELSE <<SubSeq(s, 1, k - 1), SubSeq(s, k + 1, Len(s))>>

Whitespace == {" ", "\n"}

RECURSIVE LStrip(_)
LStrip(s) ==
    IF s # <<>> /\ s[1] \in Whitespace THEN LStrip(Tail(s)) ELSE s

RECURSIVE RStrip(_)
RStrip(s) ==
    IF s # <<>> /\ s[Len(s)] \in Whitespace
    THEN RStrip(SubSeq(s, 1, Len(s) - 1)) ELSE s

\* s.strip()
Strip(s) == RStrip(LStrip(s))

RECURSIVE ParseLines_lenient(_)
\* A variant of the loop that takes a line without "-" as a button without
\* url.
ParseLines_lenient(lines) ==
    IF lines = <<>> THEN <<>>
    ELSE LET line == Head(lines)
         IN (IF Contains(line, "-")
             THEN LET parts == Split1(line, "-")
                  IN <<  <<Strip(parts[1]), Strip(parts[2])>>  >>
             ELSE <<  <<Strip(line), <<>> >>  >>)
            \o ParseLines_lenient(Tail(lines))

RECURSIVE ParseLines(_)
\* The buttons the loop of WAITING_URL_BUTTONS appends for these lines.
ParseLines(lines) ==
    IF lines = <<>> THEN <<>>
    ELSE LET line == Head(lines)
         IN (IF Contains(line, "-")
             THEN LET parts == Split1(line, "-")
                  IN <<  <<Strip(parts[1]), Strip(parts[2])>>  >>
             ELSE <<>>) \o ParseLines(Tail(lines))

----------------------------------------------------------------------------
(* format_button_markup.                                                   *)

\* InlineKeyboardMarkup(rows); the function's None is NoMarkup.
NoMarkup == [keyboard |-> FALSE, rows |-> <<>>]

RECURSIVE ButtonRows_single(_, _)
\* A variant of the loop that gives every button a row of its own.
ButtonRows_single(buttons, i) ==
    IF i > Len(buttons) THEN <<>>
    ELSE << <<buttons[i]>> >> \o ButtonRows_single(buttons, i + 1)

RECURSIVE ButtonRows(_, _)
\* The rows built by the loop "for i in range(0, len(buttons), 2)", from
\* index i (1-based here).
ButtonRows(buttons, i) ==
    IF i > Len(buttons) THEN <<>>
    ELSE IF i + 1 <= Len(buttons)
         THEN << <<buttons[i], buttons[i + 1]>> >> \o ButtonRows(buttons, i + 2)
         ELSE << <<buttons[i]>> >> \o ButtonRows(buttons, i + 2)

format_button_markup(buttons) ==
    IF buttons = <<>> THEN NoMarkup
    ELSE [keyboard |-> TRUE, rows |-> ButtonRows(buttons, 1)]

----------------------------------------------------------------------------
(* Dicts, collections and the draft.                                       *)

\* A variant of pop that leaves the key in.
Pop_kept(d, k) == d

\* d.pop(k, None)
Pop(d, k) == [x \in DOMAIN d \ {k} |-> d[x]]
\* d[k] = v
Put(d, k, v) == [x \in DOMAIN d \cup {k} |-> IF x = k THEN v ELSE d[x]]

\* user_states.get(u): the step, "None" when the key is absent.
StateOf(u) == IF u \in DOMAIN user_states THEN user_states[u] ELSE "None"

\* The draft's 'temp_file' key when it is absent.
NoFile == [file_id |-> "None", file_type |-> "None", file_name |-> "None",
           caption |-> NoText]

\* A variant of find_one that never finds a document.
HasChannel_never(col, id) == FALSE

\* col.find_one({"channel_id": id}): whether a document matches.
HasChannel(col, id) == \E i \in 1..Len(col) : col[i].channel_id = id

\* A variant of delete_one that deletes the first document when none matches.
DeleteOne_some(col, id) ==
    IF \E i \in 1..Len(col) : col[i].channel_id = id
    THEN SelectSeq(col, LAMBDA d : d.channel_id # id)
    ELSE IF col = <<>> THEN <<>> ELSE Tail(col)

\* col.delete_one({"channel_id": id}): the first matching document goes.
RECURSIVE DeleteOne(_, _)
DeleteOne(col, id) ==
    IF col = <<>> THEN <<>>
    ELSE IF Head(col).channel_id = id THEN Tail(col)
    ELSE <<Head(col)>> \o DeleteOne(Tail(col), id)

\* The document insert_one stores for a chat (added_at is not modelled:
\* nothing reads it).
Descriptor(chat) ==
    [channel_id |-> chat.id, title |-> chat.title, username |-> chat.username]

\* fileshares_col.find_one({"token": t}): the first matching record, NoRecord
\* for None.
NoRecord == [token |-> "None", file_id |-> "None", file_type |-> "None",
             file_name |-> "None", caption |-> NoText, button_title |-> NoText]

\* A variant of find_one that ignores the filter.
FindShare_unfiltered(col, t) == IF col = <<>> THEN NoRecord ELSE Head(col)

RECURSIVE FindShare(_, _)
FindShare(col, t) ==
    IF col = <<>> THEN NoRecord
    ELSE IF Head(col).token = t THEN Head(col)
    ELSE FindShare(Tail(col), t)

\* f"https://t.me/{bot_username}?start={token}"
DeepLink(token) == <<"https://t.me/", BotUsername, "?start=", token>>
\* f"https://t.me/{username}"
ChannelLink(username) == <<"https://t.me/", username>>

\* The record of the last update handled: the handler that ran, the user,
\* the step the user was in, the bot's answer and what it carried.
Ev(op, u, reply, arg) ==
    [op |-> op, user |-> u, pre |-> StateOf(u), reply |-> reply, arg |-> arg]

NoBroadcast ==
    [pc |-> "idle", user |-> "None", data |-> <<>>, target_ids |-> <<>>,
     markup |-> NoMarkup, i |-> 1, success |-> 0, failed |-> 0,
     attempts |-> <<>>, log |-> <<>>, live |-> FALSE]

\* A handler run suspended at an await, with the locals it resumes with:
\* the handler, the user, a broadcast's locals, the chat a channel input
\* named with find_one's answer, or the staged file, title and token of a
\* button title.  NoTask: nothing is suspended.
Task(op, u, run, chat, existing, temp_file, button_title, token) ==
    [op |-> op, user |-> u, run |-> run, chat |-> chat,
     existing |-> existing, temp_file |-> temp_file,
     button_title |-> button_title, token |-> token]

NoTask == Task("None", "None", NoBroadcast, NoChat, FALSE, NoFile, NoText,
               "None")

\* execute_broadcast's local "data" is the very dict post_cache holds (live)
\* until a handler pops or replaces that entry; from then on the fan-out
\* alone holds the dict, as it was at that moment.
Detach(b, u) ==
    IF b.live /\ b.user = u
    THEN [b EXCEPT !.data = post_cache[u], !.live = FALSE]
    ELSE b

\* What data[...] gives a fan-out at this moment.
DataOf(b) == IF b.live THEN post_cache[b.user] ELSE b.data

\* post_cache.pop(u) and post_cache[u] = {...} as the fan-outs in progress
\* see them.
Detaches(u) ==
    /\ bc' = Detach(bc, u)
    /\ parked' = [parked EXCEPT !.run = Detach(@, u)]

\* A variant of the filter that lets everybody through.
IsAdmin_anyone(u) == TRUE

\* filters.user(ADMIN_USER_ID): the handler is registered for the admin only.
IsAdmin(u) == u = ADMIN_USER_ID

----------------------------------------------------------------------------
(* Admin menus and the two channel-input prompts.                          *)

\* A handler that only shows a menu or an alert: no dict or collection
\* changes.
Shows(op, u, reply, arg) ==
    /\ IsAdmin(u)
    /\ last' = Ev(op, u, reply, arg)
    /\ UNCHANGED <<user_states, post_cache, must_join_channels_col,
                   post_channels_col, fileshares_col, chat_member,
                   prompted, previewed, bc, parked>>

\* A plain /start of the admin.
admin_start(u) == Shows("admin_start", u, "admin_panel", <<>>)

manage_join_channels_menu(u) ==
    Shows("manage_join_channels_menu", u, "join_channels_menu", <<>>)

manage_post_channels_menu(u) ==
    Shows("manage_post_channels_menu", u, "post_channels_menu", <<>>)

back_to_main(u) == Shows("back_to_main", u, "admin_panel", <<>>)

\* A handler that sets the admin's step and edits the message to a prompt.
Prompts(op, u, step) ==
    /\ IsAdmin(u)
    /\ user_states' = Put(user_states, u, step)
    /\ last' = Ev(op, u, "prompt", <<>>)
    /\ UNCHANGED <<post_cache, must_join_channels_col, post_channels_col,
                   fileshares_col, chat_member, prompted, previewed, bc,
                   parked>>

add_join_channel(u) ==
    Prompts("add_join_channel", u, "WAITING_JOIN_CHANNEL_INPUT")

add_post_channel(u) ==
    Prompts("add_post_channel", u, "WAITING_POST_CHANNEL_INPUT")

\* The handler behind the Cancel button of the prompt shown on entering a
\* step (its callback_data, resolved through the registered filters).
CancelControl(step) ==
    CASE step = "WAITING_JOIN_CHANNEL_INPUT" -> "manage_join_channels_menu"
      [] step = "WAITING_POST_CHANNEL_INPUT" -> "manage_post_channels_menu"
      [] step = "WAITING_POST_CONTENT" -> "admin_cancel_action"
      [] OTHER -> "wiz_cancel"

----------------------------------------------------------------------------
(* handle_admin_inputs: one operator per "if state ==" branch.  m is the   *)
(* message; the other parameters are what the collaborators answer.        *)

\* "if not state": the intro panel is shown again.
hai_no_state(u, m) ==
    /\ StateOf(u) = "None"
    /\ user_states' = Pop(user_states, u)
    /\ last' = Ev("handle_admin_inputs", u, "admin_panel", <<>>)
    /\ UNCHANGED <<post_cache, must_join_channels_col, post_channels_col,
                   fileshares_col, chat_member, prompted, previewed, bc,
                   parked>>

\* The chat a channel-input message names: the forward's origin, else what
\* get_chat(message.text) returned (res; NoChat when it raised), else none.
NamedChat(m, res) ==
    IF m.forward_from_chat # NoChat THEN m.forward_from_chat
    ELSE IF HasText(m) THEN res
    ELSE NoChat

GetChatRaised(m, res) ==
    m.forward_from_chat = NoChat /\ HasText(m) /\ res = NoChat

\* What a channel-input run reports in last.arg: the chat the message named
\* and, when it was asked, the bot's status there.
Named(chat, bot_status) == [chat |-> chat, bot_status |-> bot_status]

\* WAITING_JOIN_CHANNEL_INPUT.  db_ok: the collection answers (find_one and
\* insert_one do not raise).
hai_join_channel(u, m, res, db_ok) ==
    LET chat == NamedChat(m, res)
        inserts == chat # NoChat /\ db_ok
                   /\ ~HasChannel(must_join_channels_col, chat.id)
    IN /\ StateOf(u) = "WAITING_JOIN_CHANNEL_INPUT"
       /\ IF GetChatRaised(m, res)
          THEN /\ last' = Ev("handle_admin_inputs", u, "could_not_find",
                             Named(chat, "None"))
               /\ UNCHANGED <<user_states, must_join_channels_col>>
          ELSE /\ must_join_channels_col' =
                     IF inserts
                     THEN Append(must_join_channels_col, Descriptor(chat))
                     ELSE must_join_channels_col
               /\ user_states' = Pop(user_states, u)
               /\ last' = Ev("handle_admin_inputs", u,
                             IF chat = NoChat THEN "join_channels_menu"
                             ELSE IF ~db_ok THEN "database_error"
                             ELSE IF inserts THEN "added"
                             ELSE "already_in_list", Named(chat, "None"))
       /\ UNCHANGED <<post_cache, post_channels_col, fileshares_col,
                      chat_member, prompted, previewed, bc, parked>>

BotStatuses == {"ADMINISTRATOR", "MEMBER", "raised"}

\* A variant of the capability check that is content with membership.
IsBotAdmin_or_member(bot_status) ==
    bot_status \in {"ADMINISTRATOR", "MEMBER"}

\* member.status != ADMINISTRATOR refuses; a raising get_chat_member too.
IsBotAdmin(bot_status) == bot_status = "ADMINISTRATOR"

\* WAITING_POST_CHANNEL_INPUT.  bot_status: what get_chat_member(chat, "me")
\* answered ("raised" when it raised).
hai_post_channel(u, m, res, bot_status, db_ok) ==
    LET chat == NamedChat(m, res)
        verified == chat # NoChat /\ IsBotAdmin(bot_status)
        asked == IF chat # NoChat THEN bot_status ELSE "None"
        inserts == verified /\ db_ok
                   /\ ~HasChannel(post_channels_col, chat.id)
    IN /\ StateOf(u) = "WAITING_POST_CHANNEL_INPUT"
       /\ IF GetChatRaised(m, res)
          THEN /\ last' = Ev("handle_admin_inputs", u, "could_not_find",
                             Named(chat, "None"))
               /\ UNCHANGED <<user_states, post_channels_col>>
          ELSE IF chat # NoChat /\ ~IsBotAdmin(bot_status)
          THEN /\ last' = Ev("handle_admin_inputs", u,
                             IF bot_status = "raised" THEN "error_accessing"
                             ELSE "not_an_admin", Named(chat, asked))
               /\ UNCHANGED <<user_states, post_channels_col>>
          ELSE /\ post_channels_col' =
                     IF inserts
                     THEN Append(post_channels_col, Descriptor(chat))
                     ELSE post_channels_col
               /\ user_states' = Pop(user_states, u)
               /\ last' = Ev("handle_admin_inputs", u,
                             IF chat = NoChat THEN "post_channels_menu"
                             ELSE IF ~db_ok THEN "database_error"
                             ELSE IF inserts THEN "added"
                             ELSE "already_in_list", Named(chat, asked))
       /\ UNCHANGED <<post_cache, must_join_channels_col, fileshares_col,
                      chat_member, prompted, previewed, bc, parked>>

\* WAITING_JOIN_CHANNEL_INPUT up to the answer of find_one: the handler is
\* suspended in its await holding chat_id and existing, and the dispatcher
\* takes up another update.
hai_join_channel_find(u, m, res) ==
    LET chat == NamedChat(m, res)
    IN /\ StateOf(u) = "WAITING_JOIN_CHANNEL_INPUT"
       /\ parked = NoTask
       /\ ~GetChatRaised(m, res)
       /\ chat # NoChat
       /\ parked' = Task("hai_join_channel", u, NoBroadcast, chat,
                         HasChannel(must_join_channels_col, chat.id),
                         NoFile, NoText, "None")
       /\ last' = Ev("handle_admin_inputs", u, "find_one",
                     Named(chat, "None"))
       /\ UNCHANGED <<user_states, post_cache, must_join_channels_col,
                      post_channels_col, fileshares_col, chat_member,
                      prompted, previewed, bc>>

\* The rest of that handler: insert_one unless find_one had found a document,
\* then the step is cleared.
hai_join_channel_insert ==
    /\ parked.op = "hai_join_channel"
    /\ must_join_channels_col' =
          IF parked.existing THEN must_join_channels_col
          ELSE Append(must_join_channels_col, Descriptor(parked.chat))
    /\ user_states' = Pop(user_states, parked.user)
    /\ parked' = NoTask
    /\ last' = Ev("handle_admin_inputs", parked.user,
                  IF parked.existing THEN "already_in_list" ELSE "added",
                  Named(parked.chat, "None"))
    /\ UNCHANGED <<post_cache, post_channels_col, fileshares_col, chat_member,
                   prompted, previewed, bc>>

\* WAITING_POST_CHANNEL_INPUT of a channel the bot administers, up to the
\* answer of find_one.
hai_post_channel_find(u, m, res, bot_status) ==
    LET chat == NamedChat(m, res)
    IN /\ StateOf(u) = "WAITING_POST_CHANNEL_INPUT"
       /\ parked = NoTask
       /\ ~GetChatRaised(m, res)
       /\ chat # NoChat
       /\ IsBotAdmin(bot_status)
       /\ parked' = Task("hai_post_channel", u, NoBroadcast, chat,
                         HasChannel(post_channels_col, chat.id),
                         NoFile, NoText, "None")
       /\ last' = Ev("handle_admin_inputs", u, "find_one",
                     Named(chat, bot_status))
       /\ UNCHANGED <<user_states, post_cache, must_join_channels_col,
                      post_channels_col, fileshares_col, chat_member,
                      prompted, previewed, bc>>

\* The rest of that handler.
hai_post_channel_insert ==
    /\ parked.op = "hai_post_channel"
    /\ post_channels_col' =
          IF parked.existing THEN post_channels_col
          ELSE Append(post_channels_col, Descriptor(parked.chat))
    /\ user_states' = Pop(user_states, parked.user)
    /\ parked' = NoTask
    /\ last' = Ev("handle_admin_inputs", parked.user,
                  IF parked.existing THEN "already_in_list" ELSE "added",
                  Named(parked.chat, "ADMINISTRATOR"))
    /\ UNCHANGED <<post_cache, must_join_channels_col, fileshares_col,
                   chat_member, prompted, previewed, bc>>

\* A variant that reads the text only.
TextOrCaption_text(m) == m.text

\* message.text or message.caption or ""
TextOrCaption(m) == IF HasText(m) THEN m.text ELSE m.caption

\* message.entities or message.caption_entities or []
EntitiesOf(m) ==
    IF Entities(m) # <<>> THEN Entities(m) ELSE CaptionEntities(m)

\* WAITING_TEXT_EDIT.
hai_text_edit(u, m) ==
    /\ StateOf(u) = "WAITING_TEXT_EDIT"
    /\ IF ~HasText(m) /\ ~HasCaption(m)
       THEN /\ last' = Ev("handle_admin_inputs", u, "please_send_text", m)
            /\ UNCHANGED <<user_states, post_cache>>
       ELSE /\ post_cache' =
                  IF u \in DOMAIN post_cache
                  THEN [post_cache EXCEPT ![u].text = TextOrCaption(m),
                                          ![u].entities = EntitiesOf(m)]
                  ELSE post_cache
            /\ user_states' = Put(user_states, u, "BUILDING_POST")
            /\ last' = Ev("handle_admin_inputs", u,
                          IF u \in DOMAIN post_cache THEN "text_updated"
                          ELSE "session_expired", m)
    /\ UNCHANGED <<must_join_channels_col, post_channels_col, fileshares_col,
                   chat_member, prompted, previewed, bc, parked>>

ContentKinds == {"photo", "video", "document", "audio"}

\* The dict WAITING_POST_CONTENT builds from the message.
NewCache(m) ==
    [type |-> IF m.kind \in ContentKinds THEN m.kind ELSE "text",
     text |-> TextOrCaption(m),
     entities |-> EntitiesOf(m),
     file_id |-> IF m.kind \in ContentKinds THEN m.file_id ELSE "None",
     buttons |-> <<>>,
     attached_file_token |-> "None",
     temp_file |-> NoFile]

\* WAITING_POST_CONTENT.
hai_post_content(u, m) ==
    /\ StateOf(u) = "WAITING_POST_CONTENT"
    /\ post_cache' = Put(post_cache, u, NewCache(m))
    /\ previewed' = Pop(previewed, u)
    /\ user_states' = Put(user_states, u, "BUILDING_POST")
    /\ last' = Ev("handle_admin_inputs", u, "builder_menu",
                  [content |-> HasText(m) \/ HasMedia(m)])
    /\ Detaches(u)
    /\ UNCHANGED <<must_join_channels_col, post_channels_col, fileshares_col,
                   chat_member, prompted>>

\* WAITING_URL_BUTTONS.  message.text.split raises on a message without
\* text, and post_cache[u] raises on the first append when the draft is
\* gone: the handler then ends there ("raised"), before the step is set.
hai_url_buttons(u, m) ==
    LET new == ParseLines(Split(m.text, "\n"))
        raises == ~HasText(m) \/ (new # <<>> /\ u \notin DOMAIN post_cache)
    IN /\ StateOf(u) = "WAITING_URL_BUTTONS"
       /\ IF raises
          THEN /\ last' = Ev("handle_admin_inputs", u, "raised",
                             [added |-> 0, text |-> m.text])
               /\ UNCHANGED <<user_states, post_cache>>
          ELSE /\ post_cache' =
                     IF u \in DOMAIN post_cache
                     THEN [post_cache EXCEPT ![u].buttons = @ \o new]
                     ELSE post_cache
               /\ user_states' = Put(user_states, u, "BUILDING_POST")
               /\ last' = Ev("handle_admin_inputs", u, "added_buttons",
                             [added |-> Len(new), text |-> m.text])
       /\ UNCHANGED <<must_join_channels_col, post_channels_col,
                      fileshares_col, chat_member, prompted, previewed, bc,
                      parked>>

\* The 'temp_file' dict WAITING_FILE_ATTACH stages for the message.
StagedFile(m) ==
    [file_id |-> IF m.kind \in ContentKinds THEN m.file_id ELSE "None",
     file_type |-> IF m.kind \in {"video", "photo", "audio"} THEN m.kind
                   ELSE "document",
     file_name |-> CASE m.kind = "document" ->
                          (IF m.file_name # "None" THEN m.file_name
                           ELSE "Document")
                     [] m.kind = "video" -> "Video"
                     [] m.kind = "photo" -> "Photo"
                     [] m.kind = "audio" -> "Audio"
                     [] OTHER -> "File",
     caption |-> m.caption]

\* WAITING_FILE_ATTACH.
hai_file_attach(u, m) ==
    /\ StateOf(u) = "WAITING_FILE_ATTACH"
    /\ IF ~HasMedia(m)
       THEN /\ last' = Ev("handle_admin_inputs", u, "please_send_file", <<>>)
            /\ UNCHANGED <<user_states, post_cache>>
       ELSE IF u \notin DOMAIN post_cache
       THEN /\ last' = Ev("handle_admin_inputs", u, "raised", <<>>)
            /\ UNCHANGED <<user_states, post_cache>>
       ELSE /\ post_cache' =
                  [post_cache EXCEPT ![u].temp_file = StagedFile(m)]
            /\ user_states' = Put(user_states, u, "WAITING_BUTTON_TITLE")
            /\ last' = Ev("handle_admin_inputs", u, "file_received", <<>>)
    /\ UNCHANGED <<must_join_channels_col, post_channels_col, fileshares_col,
                   chat_member, prompted, previewed, bc, parked>>

\* generate_random_token: eight random characters; any token may come out.
generate_random_token == Tokens

\* The record insert_one stores (created_at is not modelled).
ShareRecord(token, temp_file, button_title) ==
    [token |-> token, file_id |-> temp_file.file_id,
     file_type |-> temp_file.file_type, file_name |-> temp_file.file_name,
     caption |-> temp_file.caption, button_title |-> button_title]

\* WAITING_BUTTON_TITLE of a text message up to the await of get_me: the
\* handler has read button_title and temp_file, drawn its token, and is
\* suspended while the dispatcher takes up another update.
hai_button_title_read(u, m, token) ==
    /\ StateOf(u) = "WAITING_BUTTON_TITLE"
    /\ parked = NoTask
    /\ HasText(m)
    /\ u \in DOMAIN post_cache
    /\ post_cache[u].temp_file # NoFile
    /\ parked' = Task("hai_button_title", u, NoBroadcast, NoChat, FALSE,
                      post_cache[u].temp_file, Strip(m.text), token)
    /\ last' = Ev("handle_admin_inputs", u, "get_me", <<>>)
    /\ UNCHANGED <<user_states, post_cache, must_join_channels_col,
                   post_channels_col, fileshares_col, chat_member, prompted,
                   previewed, bc>>

\* The rest of that handler: insert_one of the record, then the button, the
\* token and the cleared temp_file on whatever draft post_cache holds now (a
\* KeyError when it holds none, caught by the handler's except).
hai_button_title_save ==
    LET u == parked.user
    IN /\ parked.op = "hai_button_title"
       /\ fileshares_col' =
             Append(fileshares_col,
                    ShareRecord(parked.token, parked.temp_file,
                                parked.button_title))
       /\ IF u \in DOMAIN post_cache
          THEN /\ post_cache' =
                     [post_cache EXCEPT
                        ![u].buttons =
                            Append(@, <<parked.button_title,
                                        DeepLink(parked.token)>>),
                        ![u].attached_file_token = parked.token,
                        ![u].temp_file = NoFile]
               /\ user_states' = Put(user_states, u, "BUILDING_POST")
               /\ last' = Ev("handle_admin_inputs", u, "file_attached",
                             [token |-> parked.token, saved |-> TRUE])
          ELSE /\ last' = Ev("handle_admin_inputs", u, "error_saving",
                             [token |-> parked.token, saved |-> TRUE])
               /\ UNCHANGED <<user_states, post_cache>>
       /\ parked' = NoTask
       /\ UNCHANGED <<must_join_channels_col, post_channels_col, chat_member,
                      prompted, previewed, bc>>

\* A variant of the branch that goes back to the builder when saving fails.
hai_button_title_advances(u, m, token, saved) ==
    LET button_title == Strip(m.text)
        has_draft == u \in DOMAIN post_cache
        temp_file == IF has_draft THEN post_cache[u].temp_file ELSE NoFile
    IN /\ StateOf(u) = "WAITING_BUTTON_TITLE"
       /\ IF ~HasText(m)
          THEN /\ last' = Ev("handle_admin_inputs", u, "please_send_title",
                             <<>>)
               /\ UNCHANGED <<user_states, post_cache, fileshares_col>>
          ELSE IF ~has_draft
          THEN /\ last' = Ev("handle_admin_inputs", u, "raised", <<>>)
               /\ UNCHANGED <<user_states, post_cache, fileshares_col>>
          ELSE IF temp_file = NoFile
          THEN /\ user_states' = Put(user_states, u, "BUILDING_POST")
               /\ last' = Ev("handle_admin_inputs", u, "attach_expired", <<>>)
               /\ UNCHANGED <<post_cache, fileshares_col>>
          ELSE IF ~saved
          THEN /\ last' = Ev("handle_admin_inputs", u, "error_saving",
                             [token |-> token, saved |-> FALSE])
               /\ user_states' = Put(user_states, u, "BUILDING_POST")
               /\ UNCHANGED <<post_cache, fileshares_col>>
          ELSE /\ fileshares_col' =
                     Append(fileshares_col,
                            ShareRecord(token, temp_file, button_title))
               /\ post_cache' =
                     [post_cache EXCEPT
                        ![u].buttons =
                            Append(@, <<button_title, DeepLink(token)>>),
                        ![u].attached_file_token = token,
                        ![u].temp_file = NoFile]
               /\ user_states' = Put(user_states, u, "BUILDING_POST")
               /\ last' = Ev("handle_admin_inputs", u, "file_attached",
                             [token |-> token, saved |-> TRUE])
       /\ UNCHANGED <<must_join_channels_col, post_channels_col, chat_member,
                      prompted, previewed,
                      bc, parked>>

\* WAITING_BUTTON_TITLE.  token: what generate_random_token returned;
\* saved: get_me and insert_one did not raise.
hai_button_title(u, m, token, saved) ==
    LET button_title == Strip(m.text)
        has_draft == u \in DOMAIN post_cache
        temp_file == IF has_draft THEN post_cache[u].temp_file ELSE NoFile
    IN /\ StateOf(u) = "WAITING_BUTTON_TITLE"
       /\ IF ~HasText(m)
          THEN /\ last' = Ev("handle_admin_inputs", u, "please_send_title",
                             <<>>)
               /\ UNCHANGED <<user_states, post_cache, fileshares_col>>
          ELSE IF ~has_draft
          THEN /\ last' = Ev("handle_admin_inputs", u, "raised", <<>>)
               /\ UNCHANGED <<user_states, post_cache, fileshares_col>>
          ELSE IF temp_file = NoFile
          THEN /\ user_states' = Put(user_states, u, "BUILDING_POST")
               /\ last' = Ev("handle_admin_inputs", u, "attach_expired", <<>>)
               /\ UNCHANGED <<post_cache, fileshares_col>>
          ELSE IF ~saved
          THEN /\ last' = Ev("handle_admin_inputs", u, "error_saving",
                             [token |-> token, saved |-> FALSE])
               /\ UNCHANGED <<user_states, post_cache, fileshares_col>>
          ELSE /\ fileshares_col' =
                     Append(fileshares_col,
                            ShareRecord(token, temp_file, button_title))
               /\ post_cache' =
                     [post_cache EXCEPT
                        ![u].buttons =
                            Append(@, <<button_title, DeepLink(token)>>),
                        ![u].attached_file_token = token,
                        ![u].temp_file = NoFile]
               /\ user_states' = Put(user_states, u, "BUILDING_POST")
               /\ last' = Ev("handle_admin_inputs", u, "file_attached",
                             [token |-> token, saved |-> TRUE])
       /\ UNCHANGED <<must_join_channels_col, post_channels_col, chat_member,
                      prompted, previewed,
                      bc, parked>>

\* Any other step (BUILDING_POST): no branch matches, nothing is answered.
hai_other(u, m) ==
    /\ StateOf(u) = "BUILDING_POST"
    /\ last' = Ev("handle_admin_inputs", u, "nothing", <<>>)
    /\ UNCHANGED <<user_states, post_cache, must_join_channels_col,
                   post_channels_col, fileshares_col, chat_member,
                   prompted, previewed, bc, parked>>

\* handle_admin_inputs: every private message of the admin that is not a
\* /start command (admin_start is registered first and takes those).  The
\* message is one of messages, get_chat answers with one of chats or raises,
\* generate_random_token returns one of tokens.
handle_admin_inputs(u, messages, chats, tokens) ==
    /\ IsAdmin(u)
    /\ \/ \E m \in messages : hai_no_state(u, m)
       \/ \E m \in messages, res \in chats \cup {NoChat}, db_ok \in BOOLEAN :
             hai_join_channel(u, m, res, db_ok)
       \/ \E m \in messages, res \in chats \cup {NoChat},
             bot_status \in BotStatuses, db_ok \in BOOLEAN :
             hai_post_channel(u, m, res, bot_status, db_ok)
       \/ \E m \in messages : hai_text_edit(u, m)
       \/ \E m \in messages : hai_post_content(u, m)
       \/ \E m \in messages : hai_url_buttons(u, m)
       \/ \E m \in messages : hai_file_attach(u, m)
       \/ \E m \in messages, token \in tokens, saved \in BOOLEAN :
             hai_button_title(u, m, token, saved)
       \/ \E m \in messages : hai_other(u, m)

----------------------------------------------------------------------------
(* Removing channels.                                                      *)

\* The ids the removal list shows, one button each.
ChannelIdsOf(col) == [i \in 1..Len(col) |-> col[i].channel_id]

\* What a removal reports in last.arg: the id and delete_one's
\* deleted_count (which the handler does not read).
Deleted(col, channel_id, db_ok) ==
    [channel_id |-> channel_id,
     deleted_count |-> IF db_ok /\ HasChannel(col, channel_id) THEN 1 ELSE 0]

\* rm_join_ch_<id>: delete_one, the alert, then the list again.  db_ok:
\* delete_one and find do not raise.
confirm_remove_join_channel(u, channel_id, db_ok) ==
    /\ IsAdmin(u)
    /\ must_join_channels_col' =
          IF db_ok THEN DeleteOne(must_join_channels_col, channel_id)
          ELSE must_join_channels_col
    /\ last' = Ev("confirm_remove_join_channel", u,
                  IF db_ok THEN "channel_removed" ELSE "error_removing",
                  Deleted(must_join_channels_col, channel_id, db_ok))
    /\ UNCHANGED <<user_states, post_cache, post_channels_col, fileshares_col,
                   chat_member, prompted, previewed, bc, parked>>

confirm_remove_post_channel(u, channel_id, db_ok) ==
    /\ IsAdmin(u)
    /\ post_channels_col' =
          IF db_ok THEN DeleteOne(post_channels_col, channel_id)
          ELSE post_channels_col
    /\ last' = Ev("confirm_remove_post_channel", u,
                  IF db_ok THEN "channel_removed" ELSE "error_removing",
                  Deleted(post_channels_col, channel_id, db_ok))
    /\ UNCHANGED <<user_states, post_cache, must_join_channels_col,
                   fileshares_col, chat_member, prompted, previewed, bc,
                   parked>>

----------------------------------------------------------------------------
(* The post wizard's buttons.                                              *)

admin_cancel_action(u) ==
    /\ IsAdmin(u)
    /\ user_states' = Pop(user_states, u)
    /\ last' = Ev("admin_cancel_action", u, "admin_panel", <<>>)
    /\ UNCHANGED <<post_cache, must_join_channels_col, post_channels_col,
                   fileshares_col, chat_member, prompted, previewed, bc,
                   parked>>

start_new_post(u) ==
    /\ IsAdmin(u)
    /\ user_states' = Put(user_states, u, "WAITING_POST_CONTENT")
    /\ post_cache' = Pop(post_cache, u)
    /\ previewed' = Pop(previewed, u)
    /\ last' = Ev("start_new_post", u, "prompt", <<>>)
    /\ Detaches(u)
    /\ UNCHANGED <<must_join_channels_col, post_channels_col, fileshares_col,
                   chat_member, prompted>>

wiz_add_btn(u) == Prompts("wiz_add_btn", u, "WAITING_URL_BUTTONS")

wiz_attach_file(u) == Prompts("wiz_attach_file", u, "WAITING_FILE_ATTACH")

wiz_edit_text(u) == Prompts("wiz_edit_text", u, "WAITING_TEXT_EDIT")

wiz_back_to_builder(u) == Prompts("wiz_back_to_builder", u, "BUILDING_POST")

\* What a send of the post carries: the send_* call chosen by data['type']
\* with its arguments.
Rendering(data, markup) ==
    [type |-> data.type, text |-> data.text, entities |-> data.entities,
     file_id |-> IF data.type = "text" THEN "None" ELSE data.file_id,
     reply_markup |-> markup]

\* sent: the preview send did not raise.  previewed keeps what the admin's
\* chat then shows as the preview of the draft.
wiz_preview(u, sent) ==
    /\ IsAdmin(u)
    /\ last' =
          IF u \notin DOMAIN post_cache
          THEN Ev("wiz_preview", u, "session_expired", <<>>)
          ELSE IF ~sent
          THEN Ev("wiz_preview", u, "error_preview", <<>>)
          ELSE Ev("wiz_preview", u, "preview",
                  Rendering(post_cache[u],
                            format_button_markup(post_cache[u].buttons)))
    /\ previewed' =
          IF u \in DOMAIN post_cache /\ sent
          THEN Put(previewed, u,
                   Rendering(post_cache[u],
                             format_button_markup(post_cache[u].buttons)))
          ELSE previewed
    /\ UNCHANGED <<user_states, post_cache, must_join_channels_col,
                   post_channels_col, fileshares_col, chat_member, prompted,
                   bc, parked>>

\* post_cache.get(u, {}).get('buttons', [])
ButtonsOf(u) == IF u \in DOMAIN post_cache THEN post_cache[u].buttons ELSE <<>>

wiz_delete_buttons(u) ==
    Shows("wiz_delete_buttons", u,
          IF ButtonsOf(u) = <<>> THEN "no_buttons" ELSE "delete_menu",
          Len(ButtonsOf(u)))

\* A variant of pop that takes the last element whatever the index.
RemoveAt_last(s, i) == SubSeq(s, 1, Len(s) - 1)

\* list.pop(i), i counted from 0.
RemoveAt(s, i) == SubSeq(s, 1, i) \o SubSeq(s, i + 2, Len(s))

\* del_btn_<button_index>
delete_button_handler(u, button_index) ==
    /\ IsAdmin(u)
    /\ IF 0 <= button_index /\ button_index < Len(ButtonsOf(u))
       THEN /\ post_cache' =
                  [post_cache EXCEPT
                     ![u].buttons = RemoveAt(@, button_index)]
            /\ last' = Ev("delete_button_handler", u, "deleted", button_index)
       ELSE /\ last' = Ev("delete_button_handler", u, "button_not_found",
                          button_index)
            /\ UNCHANGED post_cache
    /\ UNCHANGED <<user_states, must_join_channels_col, post_channels_col,
                   fileshares_col, chat_member, prompted, previewed, bc,
                   parked>>

wiz_back_attach_file(u) ==
    /\ IsAdmin(u)
    /\ post_cache' =
          IF u \in DOMAIN post_cache
          THEN [post_cache EXCEPT ![u].temp_file = NoFile]
          ELSE post_cache
    /\ user_states' = Put(user_states, u, "WAITING_FILE_ATTACH")
    /\ last' = Ev("wiz_back_attach_file", u, "prompt", <<>>)
    /\ UNCHANGED <<must_join_channels_col, post_channels_col, fileshares_col,
                   chat_member, prompted, previewed, bc, parked>>

wiz_cancel(u) ==
    /\ IsAdmin(u)
    /\ post_cache' = Pop(post_cache, u)
    /\ previewed' = Pop(previewed, u)
    /\ user_states' = Pop(user_states, u)
    /\ last' = Ev("wiz_cancel", u, "admin_panel", <<>>)
    /\ Detaches(u)
    /\ UNCHANGED <<must_join_channels_col, post_channels_col, fileshares_col,
                   chat_member, prompted>>

\* db_ok: the find over post_channels_col does not raise.
wiz_send_menu(u, db_ok) ==
    Shows("wiz_send_menu", u,
          IF ~db_ok THEN "error_loading"
          ELSE IF post_channels_col = <<>> THEN "no_post_channels"
          ELSE "select_destination",
          IF db_ok THEN ChannelIdsOf(post_channels_col) ELSE <<>>)

----------------------------------------------------------------------------
(* execute_broadcast, one action per stretch between two sends.            *)

Targets == ChatIds \cup {"ALL"}

\* send_target_<target>: the entry of execute_broadcast up to the loop.
\* db_ok: the find over post_channels_col does not raise.
execute_broadcast(u, target, db_ok) ==
    /\ IsAdmin(u)
    /\ bc.pc = "idle"
    /\ IF u \notin DOMAIN post_cache
       THEN /\ last' = Ev("execute_broadcast", u, "session_expired", <<>>)
            /\ UNCHANGED bc
       ELSE IF target = "ALL" /\ ~db_ok
       THEN /\ last' = Ev("execute_broadcast", u, "error_fetching", <<>>)
            /\ UNCHANGED bc
       ELSE /\ bc' = [NoBroadcast EXCEPT
                        !.pc = "loop",
                        !.user = u,
                        !.data = post_cache[u],
                        !.live = TRUE,
                        !.target_ids =
                            IF target = "ALL"
                            THEN ChannelIdsOf(post_channels_col)
                            ELSE <<target>>,
                        !.markup =
                            format_button_markup(post_cache[u].buttons)]
            /\ last' = Ev("execute_broadcast", u, "sending", target)
    /\ UNCHANGED <<user_states, post_cache, must_join_channels_col,
                   post_channels_col, fileshares_col, chat_member,
                   prompted, previewed, parked>>

\* What a send can do: succeed, raise FloodWait, or raise anything else
\* (the exception's text is what str(e) gives).
Errors == {"ChatWriteForbidden", "PeerIdInvalid"}
SendOutcomes == {"sent", "FloodWait"} \cup Errors

\* A variant of the log line that leaves the exception out.
LogLine_bare(chat_id, e) == <<"Failed to send to ", chat_id>>

\* logger.error(f"Failed to send to {chat_id}: {e}")
LogLine(chat_id, e) == <<"Failed to send to ", chat_id, ": ", e>>

\* A variant of the loop that gives up on the remaining targets after a send
\* that did not succeed.
Following_abort(i, target_ids, outcome) ==
    IF outcome = "sent" THEN i + 1 ELSE Len(target_ids) + 1

\* "for chat_id in target_ids": whatever the send did, the loop goes on with
\* the target after this one.
Following(i, target_ids, outcome) == i + 1

\* One record per send attempted: the target, first try or retry, what the
\* transport answered, what was sent and the sleep that followed.
Attempt(chat_id, try, outcome, sleep) ==
    [chat_id |-> chat_id, try |-> try, outcome |-> outcome,
     sent |-> Rendering(DataOf(bc), bc.markup), sleep |-> sleep]

\* A variant of the loop body that logs a failed send without counting it.
bc_send_uncounted(outcome) ==
    LET chat_id == bc.target_ids[bc.i]
    IN /\ bc.pc = "loop"
       /\ bc.i <= Len(bc.target_ids)
       /\ bc' = CASE outcome = "sent" ->
                       [bc EXCEPT
                          !.success = @ + 1,
                          !.i = Following(@, bc.target_ids, outcome),
                          !.attempts =
                              Append(@, Attempt(chat_id, 1, outcome, "0.5"))]
                  [] outcome = "FloodWait" ->
                       [bc EXCEPT
                          !.pc = "retry",
                          !.attempts =
                              Append(@, Attempt(chat_id, 1, outcome,
                                                "e.value"))]
                  [] OTHER ->
                       [bc EXCEPT
                          !.i = Following(@, bc.target_ids, outcome),
                          !.log = Append(@, LogLine(chat_id, outcome)),
                          !.attempts =
                              Append(@, Attempt(chat_id, 1, outcome, "none"))]
       /\ last' = Ev("bc_send", bc.user, outcome, chat_id)
       /\ UNCHANGED <<user_states, post_cache, must_join_channels_col,
                      post_channels_col, fileshares_col, chat_member,
                      prompted, previewed, parked>>

\* The body of "for chat_id in target_ids" up to the end of the first try:
\* sent (success += 1, sleep 0.5), FloodWait (sleep e.value, then the
\* retry), any other exception (logged, failed += 1).
bc_send(outcome) ==
    LET chat_id == bc.target_ids[bc.i]
    IN /\ bc.pc = "loop"
       /\ bc.i <= Len(bc.target_ids)
       /\ bc' = CASE outcome = "sent" ->
                       [bc EXCEPT
                          !.success = @ + 1,
                          !.i = Following(@, bc.target_ids, outcome),
                          !.attempts =
                              Append(@, Attempt(chat_id, 1, outcome, "0.5"))]
                  [] outcome = "FloodWait" ->
                       [bc EXCEPT
                          !.pc = "retry",
                          !.attempts =
                              Append(@, Attempt(chat_id, 1, outcome,
                                                "e.value"))]
                  [] OTHER ->
                       [bc EXCEPT
                          !.failed = @ + 1,
                          !.i = Following(@, bc.target_ids, outcome),
                          !.log = Append(@, LogLine(chat_id, outcome)),
                          !.attempts =
                              Append(@, Attempt(chat_id, 1, outcome, "none"))]
       /\ last' = Ev("bc_send", bc.user, outcome, chat_id)
       /\ UNCHANGED <<user_states, post_cache, must_join_channels_col,
                      post_channels_col, fileshares_col, chat_member,
                      prompted, previewed, parked>>

\* A variant of the retry that sleeps and tries again on every FloodWait.
bc_retry_again(outcome) ==
    LET chat_id == bc.target_ids[bc.i]
    IN /\ bc.pc = "retry"
       /\ bc' = CASE outcome = "sent" ->
                       [bc EXCEPT
                          !.pc = "loop",
                          !.success = @ + 1,
                          !.i = @ + 1,
                          !.attempts =
                              Append(@, Attempt(chat_id, 2, outcome, "none"))]
                  [] outcome = "FloodWait" ->
                       [bc EXCEPT
                          !.attempts =
                              Append(@, Attempt(chat_id, 2, outcome,
                                                "e.value"))]
                  [] OTHER ->
                       [bc EXCEPT
                          !.pc = "loop",
                          !.failed = @ + 1,
                          !.i = @ + 1,
                          !.attempts =
                              Append(@, Attempt(chat_id, 2, outcome, "none"))]
       /\ last' = Ev("bc_retry", bc.user, outcome, chat_id)
       /\ UNCHANGED <<user_states, post_cache, must_join_channels_col,
                      post_channels_col, fileshares_col, chat_member,
                      prompted, previewed, parked>>

\* The retry after FloodWait: sent (success += 1) or any exception, a second
\* FloodWait included (the bare except: failed += 1, nothing logged).
bc_retry(outcome) ==
    LET chat_id == bc.target_ids[bc.i]
    IN /\ bc.pc = "retry"
       /\ bc' = IF outcome = "sent"
                THEN [bc EXCEPT
                        !.pc = "loop",
                        !.success = @ + 1,
                        !.i = Following(@, bc.target_ids, outcome),
                        !.attempts =
                            Append(@, Attempt(chat_id, 2, outcome, "none"))]
                ELSE [bc EXCEPT
                        !.pc = "loop",
                        !.failed = @ + 1,
                        !.i = Following(@, bc.target_ids, outcome),
                        !.attempts =
                            Append(@, Attempt(chat_id, 2, outcome, "none"))]
       /\ last' = Ev("bc_retry", bc.user, outcome, chat_id)
       /\ UNCHANGED <<user_states, post_cache, must_join_channels_col,
                      post_channels_col, fileshares_col, chat_member,
                      prompted, previewed, parked>>

\* The event loop at an await of a fan-out (a send or a sleep): the handler
\* of a later send_target_ press, a fan-out of its own, is the task that runs
\* next, and the other one waits.
bc_switch ==
    /\ parked.op \in {"None", "execute_broadcast"}
    /\ bc.pc # "idle" \/ parked.op = "execute_broadcast"
    /\ bc' = parked.run
    /\ parked' = IF bc.pc = "idle" THEN NoTask
                 ELSE Task("execute_broadcast", bc.user, bc, NoChat, FALSE,
                           NoFile, NoText, "None")
    /\ UNCHANGED <<user_states, post_cache, must_join_channels_col,
                   post_channels_col, fileshares_col, chat_member, prompted,
                   previewed, last>>

\* A variant of the result that swaps the two counts.
ResultText_swapped(success, failed) ==
    [Successful |-> failed, Failed |-> success]

\* result_text: the two counts and nothing else.
ResultText(success, failed) == [Successful |-> success, Failed |-> failed]

\* After the loop: both dicts are cleared, the result is sent and the admin
\* panel shown.  last.arg keeps the result with the loop's locals.
bc_finish ==
    /\ bc.pc = "loop"
    /\ bc.i > Len(bc.target_ids)
    /\ post_cache' = Pop(post_cache, bc.user)
    /\ user_states' = Pop(user_states, bc.user)
    /\ bc' = NoBroadcast
    /\ last' = Ev("bc_finish", bc.user, "broadcasting_complete",
                  [result_text |-> ResultText(bc.success, bc.failed),
                   target_ids |-> bc.target_ids,
                   attempts |-> bc.attempts,
                   log |-> bc.log])
    /\ previewed' = Pop(previewed, bc.user)
    /\ parked' = [parked EXCEPT !.run = Detach(@, bc.user)]
    /\ UNCHANGED <<must_join_channels_col, post_channels_col, fileshares_col,
                   chat_member, prompted>>

----------------------------------------------------------------------------
(* The forced-subscription gate.                                           *)

\* What get_chat_member can report for the end user.  NOT_PARTICIPANT is
\* Telegram's answer for a user who never joined: pyrogram raises
\* UserNotParticipant for it.
Statuses == {"MEMBER", "LEFT", "BANNED", "NOT_PARTICIPANT"}

\* The requester's status in a channel.  The admin is taken to administer
\* every channel; the end user's status is chat_member.
StatusOf(u, channel_id) ==
    IF IsAdmin(u) THEN "ADMINISTRATOR" ELSE chat_member[channel_id]

\* A variant of is_user_member that only turns away the banned.
is_user_member_banned_only(answer) ==
    IF answer = "raised" THEN FALSE
    ELSE IF answer = "NOT_PARTICIPANT" THEN FALSE
    ELSE IF answer = "BANNED" THEN FALSE
    ELSE TRUE

\* is_user_member, given what get_chat_member does: it returns the status,
\* or raises ("raised": any exception other than UserNotParticipant).
is_user_member(answer) ==
    IF answer = "raised" THEN FALSE
    ELSE IF answer = "NOT_PARTICIPANT" THEN FALSE
    ELSE IF answer \in {"BANNED", "LEFT"} THEN FALSE
    ELSE TRUE

\* What get_chat_member does for user u in a channel, when the queries of
\* the channels in failing raise.
Answer(u, channel_id, failing) ==
    IF channel_id \in failing THEN "raised" ELSE StatusOf(u, channel_id)

RECURSIVE NotJoined_unlinked(_, _, _)
\* A variant of not_joined_channels that also lists the channels without a
\* username.
NotJoined_unlinked(col, u, failing) ==
    IF col = <<>> THEN <<>>
    ELSE LET ch == Head(col)
             is_member == is_user_member(Answer(u, ch.channel_id, failing))
         IN (IF ~is_member
             THEN << <<ch.title, ChannelLink(ch.username)>> >>
             ELSE <<>>) \o NotJoined_unlinked(Tail(col), u, failing)

RECURSIVE NotJoined(_, _, _)
\* not_joined_channels: (title, invite_link) of every channel, in collection
\* order, where is_member is false and the descriptor has a username.
NotJoined(col, u, failing) ==
    IF col = <<>> THEN <<>>
    ELSE LET ch == Head(col)
             is_member == is_user_member(Answer(u, ch.channel_id, failing))
             invite_link == IF ch.username # "None"
                            THEN ChannelLink(ch.username) ELSE <<>>
         IN (IF ~is_member /\ invite_link # <<>>
             THEN << <<ch.title, invite_link>> >>
             ELSE <<>>) \o NotJoined(Tail(col), u, failing)

\* The keyboard of the join prompt: one "Join <title>" per entry, then the
\* "I Joined" button with the retry link.
RECURSIVE JoinButtons(_)
JoinButtons(not_joined) ==
    IF not_joined = <<>> THEN <<>>
    ELSE << << <<"Join ", Head(not_joined)[1]>>, Head(not_joined)[2] >> >>
         \o JoinButtons(Tail(not_joined))

JoinPrompt(not_joined, token) ==
    JoinButtons(not_joined) \o << << <<"I Joined">>, DeepLink(token) >> >>

Faults == {"none", "find_share", "find_channels", "get_me", "send"}

\* What the handler reports in last.arg.
Resolution(token, queried, failing, fault, buttons, released) ==
    [token |-> token, queried |-> queried, failing |-> failing,
     fault |-> fault, buttons |-> buttons, released |-> released]

\* /start <token>, for any user (admin_start hands the admin's to it).
\* failing: the channels whose membership query raises; fault: the one
\* collaborator call, if any, that raises during this run.
user_start_handler(u, token, failing, fault) ==
    LET file_data == FindShare(fileshares_col, token)
        not_joined == NotJoined(must_join_channels_col, u, failing)
        queried == ChannelIdsOf(must_join_channels_col)
        Answered(reply, q, buttons, released) ==
            Ev("user_start_handler", u, reply,
               Resolution(token, q, failing, fault, buttons, released))
    IN /\ last' =
             IF fault = "find_share"
             THEN Answered("system_error", <<>>, <<>>, NoRecord)
             ELSE IF file_data = NoRecord
             THEN Answered("invalid_link", <<>>, <<>>, NoRecord)
             ELSE IF fault = "find_channels"
             THEN Answered("error_verifying", <<>>, <<>>, NoRecord)
             ELSE IF not_joined # <<>> /\ fault = "get_me"
             THEN Answered("error_verifying", queried, <<>>, NoRecord)
             ELSE IF not_joined # <<>>
             THEN Answered("join_prompt", queried,
                           JoinPrompt(not_joined, token), NoRecord)
             ELSE IF fault = "send" \/ file_data.file_id = "None"
             THEN Answered("error_sending", queried, <<>>, NoRecord)
             ELSE Answered("file_released", queried, <<>>, file_data)
       /\ prompted' = IF last'.reply = "join_prompt"
                      THEN prompted \cup {<<u, token>>} ELSE prompted
       /\ UNCHANGED <<user_states, post_cache, must_join_channels_col,
                      post_channels_col, fileshares_col, chat_member,
                      previewed, bc, parked>>

\* A plain /start of somebody who is not the admin: the welcome.
user_start_welcome(u) ==
    /\ ~IsAdmin(u)
    /\ last' = Ev("user_start_handler", u, "welcome",
                  Resolution("None", <<>>, {}, "none", <<>>, NoRecord))
    /\ UNCHANGED <<user_states, post_cache, must_join_channels_col,
                   post_channels_col, fileshares_col, chat_member,
                   prompted, previewed, bc, parked>>

\* Telegram: the end user joins, leaves or is banned from a channel.
membership_changes(channel_id, status) ==
    /\ chat_member[channel_id] # status
    /\ chat_member' = [chat_member EXCEPT ![channel_id] = status]
    /\ last' = [op |-> "membership_changes", user |-> "user",
                pre |-> StateOf("user"), reply |-> status, arg |-> channel_id]
    /\ UNCHANGED <<user_states, post_cache, must_join_channels_col,
                   post_channels_col, fileshares_col, prompted, previewed, bc,
                   parked>>

----------------------------------------------------------------------------
(* The state after construction.                                           *)

EmptyDict == [x \in {} |-> "None"]

NoEvent ==
    [op |-> "init", user |-> "None", pre |-> "None", reply |-> "None",
     arg |-> <<>>]

\* The in-memory part: both dicts empty, no broadcast running.
InitMemory ==
    /\ user_states = EmptyDict
    /\ post_cache = EmptyDict
    /\ bc = NoBroadcast
    /\ parked = NoTask
    /\ last = NoEvent

\* Nobody has joined anything yet.
InitTelegram ==
    /\ chat_member = [c \in ChatIds |-> "NOT_PARTICIPANT"]
    /\ prompted = {}
    /\ previewed = [x \in {} |-> "None"]

\* An empty database.
InitEmptyDb ==
    /\ must_join_channels_col = <<>>
    /\ post_channels_col = <<>>
    /\ fileshares_col = <<>>

\* The sizes the model lets the draft and the collections grow to.
Within(buttons, shares, channels) ==
    /\ \A u \in DOMAIN post_cache : Len(post_cache[u].buttons) <= buttons
    /\ Len(fileshares_col) <= shares
    /\ Len(must_join_channels_col) <= channels
    /\ Len(post_channels_col) <= channels

----------------------------------------------------------------------------
(* The wizard: every handler of the admin, run one update at a time (an    *)
(* update is taken up when no broadcast is running).                       *)

WizMessages == {TextMsg(T_btn), M_doc}
WizChats == {c \in Chats : c.id = "c1"}
WizTokens == {"t1"}

Init == InitMemory /\ InitTelegram /\ InitEmptyDb

\* An update of the wizard runs: it is taken up when no broadcast is running
\* and the draft and the collections stay within the sizes of the model.
Wiz(A) ==
    /\ bc.pc = "idle"
    /\ A
    /\ Within(WizButtons, WizShares, WizChannels)'

WizTargets == {c.id : c \in WizChats} \cup {"ALL"}
WizOutcomes == {"sent", "FloodWait", "ChatWriteForbidden"}

Next ==
    \/ \E u \in Users : Wiz(admin_start(u))
    \/ \E u \in Users : Wiz(manage_join_channels_menu(u))
    \/ \E u \in Users : Wiz(manage_post_channels_menu(u))
    \/ \E u \in Users : Wiz(add_join_channel(u))
    \/ \E u \in Users : Wiz(add_post_channel(u))
    \/ \E u \in Users : Wiz(back_to_main(u))
    \/ \E u \in Users : Wiz(admin_cancel_action(u))
    \/ \E u \in Users : Wiz(start_new_post(u))
    \/ \E u \in Users : Wiz(wiz_add_btn(u))
    \/ \E u \in Users : Wiz(wiz_attach_file(u))
    \/ \E u \in Users : Wiz(wiz_edit_text(u))
    \/ \E u \in Users : Wiz(wiz_delete_buttons(u))
    \/ \E u \in Users : Wiz(wiz_back_attach_file(u))
    \/ \E u \in Users : Wiz(wiz_back_to_builder(u))
    \/ \E u \in Users : Wiz(wiz_cancel(u))
    \/ \E u \in Users, sent \in BOOLEAN : Wiz(wiz_preview(u, sent))
    \/ \E u \in Users, db_ok \in BOOLEAN : Wiz(wiz_send_menu(u, db_ok))
    \/ \E u \in Users, i \in 0..WizButtons : Wiz(delete_button_handler(u, i))
    \/ \E u \in Users, c \in WizChats, db_ok \in BOOLEAN :
          Wiz(confirm_remove_join_channel(u, c.id, db_ok))
    \/ \E u \in Users, c \in WizChats, db_ok \in BOOLEAN :
          Wiz(confirm_remove_post_channel(u, c.id, db_ok))
    \/ \E u \in Users :
          Wiz(handle_admin_inputs(u, WizMessages, WizChats, WizTokens))
    \/ \E u \in Users, target \in WizTargets, db_ok \in BOOLEAN :
          Wiz(execute_broadcast(u, target, db_ok))
    \/ \E outcome \in WizOutcomes : bc_send(outcome)
    \/ \E outcome \in WizOutcomes \ {"FloodWait"} : bc_retry(outcome)
    \/ bc_finish

Spec == Init /\ [][Next]_vars

----------------------------------------------------------------------------
(* Claims about the wizard's steps.                                        *)

\* C1: cancelling from any step that is not idle returns the session to
\* idle with the draft cleared: whenever the last update handled was a press
\* of the Cancel button offered in the step the admin was in, the admin has
\* no step and no draft any more.
C1_CancelReturnsToIdle ==
    (/\ last.user = ADMIN_USER_ID
     /\ last.pre # "None"
     /\ last.op = CancelControl(last.pre))
    => /\ StateOf(ADMIN_USER_ID) = "None"
       /\ ADMIN_USER_ID \notin DOMAIN post_cache

----------------------------------------------------------------------------
(* The gate: an end user follows deep links while the memberships change.  *)
(* The registry and the vault are what the database kept from earlier      *)
(* runs of the bot.                                                        *)

GateUsers == {"user"}

\* A token no record was ever stored under.
NeverIssued == "t0"
GateTokens == Tokens \cup {NeverIssued}

\* The collections a registry can hold: descriptors of distinct channels, in
\* any order, at most n of them.
Registries(n) ==
    { col \in UNION { [1..k -> {Descriptor(c) : c \in Chats}] : k \in 0..n } :
        \A i, j \in 1..Len(col) : i # j => col[i] # col[j] }

\* File share records as WAITING_BUTTON_TITLE stores them.
StoredShares ==
    << ShareRecord("t1", StagedFile(M_doc), T_hi),
       ShareRecord("t2", StagedFile(M_photo), T_cap) >>

GateVaults == { SubSeq(StoredShares, 1, k) : k \in 0..Len(StoredShares) }

InitGate ==
    /\ InitMemory
    /\ InitTelegram
    /\ must_join_channels_col \in Registries(GateChannels)
    /\ post_channels_col = <<>>
    /\ fileshares_col \in GateVaults

\* The membership queries that raise during one run: none, or those of one
\* channel of the registry (a run has at most one call that raises).
FailingSets ==
    {{}} \cup { {c} : c \in { must_join_channels_col[i].channel_id :
                                i \in 1..Len(must_join_channels_col) } }

NextGate ==
    \/ \E u \in GateUsers, token \in GateTokens, failing \in FailingSets,
          fault \in Faults :
          /\ failing = {} \/ fault = "none"
          /\ user_start_handler(u, token, failing, fault)
    \/ \E u \in GateUsers : user_start_welcome(u)
    \/ \E c \in ChatIds, status \in Statuses :
          /\ HasChannel(must_join_channels_col, c)
          /\ membership_changes(c, status)

SpecGate == InitGate /\ [][NextGate]_vars

\* The statuses of somebody who is not in the channel.
Unjoined(u, channel_id) ==
    StatusOf(u, channel_id) \in {"BANNED", "LEFT", "NOT_PARTICIPANT"}

\* The gate channels with a public handle.
Linkable == { i \in 1..Len(must_join_channels_col) :
                must_join_channels_col[i].username # "None" }

\* The records stored under a token.
StoredUnder(token) ==
    { i \in 1..Len(fileshares_col) : fileshares_col[i].token = token }

Resolved == last.op = "user_start_handler" /\ last.reply # "welcome"

\* C2: the file is released only if the token resolves to a stored record
\* and the requester's status in every gate channel with a public handle is
\* neither banned nor left; and whenever the requester is not in some gate
\* channel with a public handle, nothing is released.
C2_ReleaseOnlyWhenJoined ==
    Resolved =>
        /\ last.arg.released # NoRecord <=> last.reply = "file_released"
        /\ last.reply = "file_released" =>
              /\ StoredUnder(last.arg.token) # {}
              /\ last.arg.released.token = last.arg.token
              /\ \A i \in Linkable :
                    StatusOf(last.user, must_join_channels_col[i].channel_id)
                        \notin {"BANNED", "LEFT"}
        /\ (\E i \in Linkable :
               Unjoined(last.user, must_join_channels_col[i].channel_id))
           => last.arg.released = NoRecord

\* C2's case: a file released through a registry that has a channel with a
\* public handle, and one without where the requester is not a member.
C2_Witness ==
    /\ Resolved
    /\ last.reply = "file_released"
    /\ Linkable # {}
    /\ \E i \in 1..Len(must_join_channels_col) :
          /\ i \notin Linkable
          /\ Unjoined(last.user, must_join_channels_col[i].channel_id)

RECURSIVE UnjoinedLinkable(_, _)
\* (title, link) of the gate channels, in registry order, that have a public
\* handle and that the user is not in.
UnjoinedLinkable(col, u) ==
    IF col = <<>> THEN <<>>
    ELSE (IF Head(col).username # "None" /\ Unjoined(u, Head(col).channel_id)
          THEN << <<Head(col).title,
                    <<"https://t.me/", Head(col).username>> >> >>
          ELSE <<>>) \o UnjoinedLinkable(Tail(col), u)

\* C3: the join prompt carries exactly one join button per gate channel that
\* the requester is not in and that has a public handle, in registry order
\* (none for joined channels, none for channels without a handle), followed
\* by the retry button carrying the same token.
C3_JoinPromptButtons ==
    (Resolved /\ last.reply = "join_prompt") =>
        LET listed == UnjoinedLinkable(must_join_channels_col, last.user)
        IN last.arg.buttons =
              [k \in 1..Len(listed) |->
                  << <<"Join ", listed[k][1]>>, listed[k][2] >>]
              \o << << <<"I Joined">>,
                       <<"https://t.me/", BotUsername, "?start=",
                         last.arg.token>> >> >>

\* C4: a join prompt does not use up the token: when a user who was answered
\* a join prompt for a token presents it again, being by then in every gate
\* channel with a public handle, and no call fails, the file of the token is
\* released.
C4_PromptKeepsToken ==
    (/\ Resolved
     /\ <<last.user, last.arg.token>> \in prompted
     /\ last.arg.failing = {}
     /\ last.arg.fault = "none"
     /\ \A i \in Linkable :
           ~Unjoined(last.user, must_join_channels_col[i].channel_id))
    => /\ last.reply = "file_released"
       /\ last.arg.released.token = last.arg.token

\* C4's case: the file released for a token the user had been prompted for,
\* the gate holding a channel with a handle and one without that the user
\* is not in.
C4_Witness ==
    /\ Resolved
    /\ last.reply = "file_released"
    /\ <<last.user, last.arg.token>> \in prompted
    /\ Linkable # {}
    /\ \E i \in 1..Len(must_join_channels_col) :
          /\ i \notin Linkable
          /\ Unjoined(last.user, must_join_channels_col[i].channel_id)
    /\ last.arg.token = "t2"

\* C5: a token no record was stored under is answered, once the vault has
\* answered the lookup, with the invalid-link response and nothing else: no
\* membership is queried, no prompt is built, nothing is released.
C5_UnknownTokenIsInvalid ==
    (/\ Resolved
     /\ StoredUnder(last.arg.token) = {}
     /\ last.arg.fault # "find_share")
    => /\ last.reply = "invalid_link"
       /\ last.arg.queried = <<>>
       /\ last.arg.buttons = <<>>
       /\ last.arg.released = NoRecord

\* C5's case: the never-issued token presented while the vault holds records
\* and the gate has channels.
C5_Witness ==
    /\ Resolved
    /\ last.arg.token = NeverIssued
    /\ last.reply = "invalid_link"
    /\ fileshares_col # <<>>
    /\ must_join_channels_col # <<>>

\* C7: when the membership query of a gate channel fails with an error, the
\* resolver halts with the error response and releases nothing, whether or
\* not that channel has a public handle.
C7_QueryFailureHalts ==
    (/\ Resolved
     /\ \E k \in 1..Len(last.arg.queried) :
           last.arg.queried[k] \in last.arg.failing)
    => /\ last.reply = "error_verifying"
       /\ last.arg.released = NoRecord

----------------------------------------------------------------------------
(* The vault: the admin attaches files to drafts, and links are followed.  *)

VaultMessages == {TextMsg(T_hi), M_doc, M_photo}

Vault(A) ==
    /\ A
    /\ Within(VaultShares, VaultShares, 0)'

NextVault ==
    \/ Vault(start_new_post(ADMIN_USER_ID))
    \/ Vault(wiz_attach_file(ADMIN_USER_ID))
    \/ Vault(wiz_cancel(ADMIN_USER_ID))
    \/ \E m \in VaultMessages : Vault(hai_post_content(ADMIN_USER_ID, m))
    \/ \E m \in VaultMessages : Vault(hai_file_attach(ADMIN_USER_ID, m))
    \/ \E m \in VaultMessages, token \in generate_random_token,
          saved \in BOOLEAN :
          Vault(hai_button_title(ADMIN_USER_ID, m, token, saved))
    \/ \E u \in GateUsers, token \in Tokens :
          Vault(user_start_handler(u, token, {}, "none"))

SpecVault == Init /\ [][NextVault]_vars

\* C6: token issuance is injective: no two stored file share records carry
\* the same token (a candidate that collides with a stored token is not
\* kept).
C6_TokensInjective ==
    \A i, j \in 1..Len(fileshares_col) :
        i # j => fileshares_col[i].token # fileshares_col[j].token

----------------------------------------------------------------------------
(* The button layout: drafts with up to MaxButtons buttons are previewed,  *)
(* trimmed and delivered.                                                  *)

\* Buttons as the wizard stores them: (title, url).
ButtonSamples ==
    { << <<"a">>, <<"u">> >>,
      << T_hi, DeepLink("t1") >>,
      << <<"b">>, <<"v", "-", "w">> >> }

Drafts ==
    { [NewCache(M_hi) EXCEPT !.buttons = b] :
        b \in UNION { [1..k -> ButtonSamples] : k \in 0..MaxButtons } }

InitButtons ==
    /\ user_states = [u \in {ADMIN_USER_ID} |-> "BUILDING_POST"]
    /\ post_cache \in [{ADMIN_USER_ID} -> Drafts]
    /\ bc = NoBroadcast
    /\ parked = NoTask
    /\ last = NoEvent
    /\ InitTelegram
    /\ must_join_channels_col = <<>>
    /\ post_channels_col = << Descriptor(CHOOSE c \in Chats : c.id = "c1") >>
    /\ fileshares_col = <<>>

NextButtons ==
    \/ \E sent \in BOOLEAN : wiz_preview(ADMIN_USER_ID, sent)
    \/ \E i \in 0..MaxButtons : delete_button_handler(ADMIN_USER_ID, i)
    \/ \E target \in {"c1", "ALL"}, db_ok \in BOOLEAN :
          execute_broadcast(ADMIN_USER_ID, target, db_ok)
    \/ \E outcome \in WizOutcomes : bc_send(outcome)
    \/ \E outcome \in WizOutcomes \ {"FloodWait"} : bc_retry(outcome)
    \/ bc_finish

SpecButtons == InitButtons /\ [][NextButtons]_vars

\* Two per row in insertion order, a last odd button alone; no keyboard for
\* no buttons.
Laid(buttons, markup) ==
    IF Len(buttons) = 0
    THEN markup = [keyboard |-> FALSE, rows |-> <<>>]
    ELSE /\ markup.keyboard
         /\ markup.rows =
               [r \in 1..((Len(buttons) + 1) \div 2) |->
                   IF 2 * r <= Len(buttons)
                   THEN <<buttons[2 * r - 1], buttons[2 * r]>>
                   ELSE <<buttons[2 * r - 1]>>]

\* C8: the keyboard of a post holds the draft's buttons two per row, a
\* trailing odd button in a row of its own, in insertion order; the preview
\* and every delivery carry that keyboard, and a draft without buttons is
\* sent without a keyboard.
C8_ButtonLayout ==
    /\ (last.op = "wiz_preview" /\ last.reply = "preview")
       => Laid(post_cache[last.user].buttons, last.arg.reply_markup)
    /\ \A k \in 1..Len(bc.attempts) :
          Laid(bc.data.buttons, bc.attempts[k].sent.reply_markup)

\* C8's case: a draft of three buttons, no two neighbours alike, has been
\* sent to a target twice (the first try and the retry).
C8_Witness ==
    /\ Len(bc.attempts) = 2
    /\ Len(bc.data.buttons) = 3
    /\ bc.data.buttons[1] # bc.data.buttons[2]
    /\ bc.data.buttons[2] # bc.data.buttons[3]

----------------------------------------------------------------------------
(* Delivery: a draft is sent to the targets, whatever the transport does.  *)

InitDeliver ==
    /\ user_states = [u \in {ADMIN_USER_ID} |-> "BUILDING_POST"]
    /\ post_cache = [u \in {ADMIN_USER_ID} |-> NewCache(M_hi)]
    /\ bc = NoBroadcast
    /\ parked = NoTask
    /\ last = NoEvent
    /\ InitTelegram
    /\ must_join_channels_col = <<>>
    /\ post_channels_col \in Registries(DeliverTargets)
    /\ fileshares_col = <<>>

NextDeliver ==
    \/ start_new_post(ADMIN_USER_ID) /\ bc.pc = "idle"
    \/ hai_post_content(ADMIN_USER_ID, M_hi) /\ bc.pc = "idle"
    \/ \E target \in ChatIds \cup {"ALL"}, db_ok \in BOOLEAN :
          execute_broadcast(ADMIN_USER_ID, target, db_ok)
    \/ \E outcome \in SendOutcomes : bc_send(outcome)
    \/ \E outcome \in SendOutcomes : bc_retry(outcome)
    \/ bc_finish

SpecDeliver == InitDeliver /\ [][NextDeliver]_vars

\* The event loop runs a started broadcast on: every send returns or raises,
\* every sleep ends.
SpecDeliverFair ==
    /\ SpecDeliver
    /\ WF_vars(\E outcome \in SendOutcomes : bc_send(outcome))
    /\ WF_vars(\E outcome \in SendOutcomes : bc_retry(outcome))
    /\ WF_vars(bc_finish)

Finished == last.op = "bc_finish"

\* The attempts made on target number k of a finished delivery.
TriesOf(k) ==
    SelectSeq(last.arg.attempts,
              LAMBDA a : a.chat_id = last.arg.target_ids[k])

\* Target k failed with an error that is not the rate limit.
Errored(k) == TriesOf(k)[1].outcome \notin {"sent", "FloodWait"}

\* Target k took the post, at the first try or at the retry.
Succeeded(k) == TriesOf(k)[Len(TriesOf(k))].outcome = "sent"

\* C9: a delivery to K targets of which exactly one fails with an error that
\* is not the rate limit, all others succeeding, reports K-1 sent and 1
\* failed, wherever in the order the failing target is.
C9_OneFailureCounted ==
    Finished =>
        LET K == Len(last.arg.target_ids)
            errored == { k \in 1..K : Errored(k) }
        IN (/\ Cardinality(errored) = 1
            /\ \A k \in (1..K) \ errored : Succeeded(k))
           => /\ last.arg.result_text["Successful"] = K - 1
              /\ last.arg.result_text["Failed"] = 1

\* C9's case: three targets, the second failed, the third succeeded at the
\* retry.
C9_Witness ==
    /\ Finished
    /\ Len(last.arg.target_ids) = 3
    /\ Errored(2)
    /\ Succeeded(1)
    /\ Succeeded(3)
    /\ Len(TriesOf(3)) = 2

\* The lines the failures other than the rate limit leave, in target order.
FailureLines ==
    LET errs == SelectSeq(last.arg.attempts,
                          LAMBDA a : /\ a.try = 1
                                     /\ a.outcome \notin {"sent", "FloodWait"})
    IN [k \in 1..Len(errs) |->
           <<"Failed to send to ", errs[k].chat_id, ": ", errs[k].outcome>>]

\* What the result tells of each failure.
PerTargetErrors(result) ==
    IF "perTargetErrors" \in DOMAIN result THEN result["perTargetErrors"]
    ELSE <<>>

FirstTried(attempts) ==
    LET firsts == SelectSeq(attempts, LAMBDA a : a.try = 1)
    IN [k \in 1..Len(firsts) |-> firsts[k].chat_id]

\* C11: failures are isolated per target: while the fan-out runs, the targets
\* tried so far are the first targets of the resolved set, in order, none
\* skipped, whatever the earlier sends did; and a finished fan-out has tried
\* every target of the set.
C11_EveryTargetTried ==
    /\ bc.pc # "idle" =>
          /\ bc.i <= Len(bc.target_ids) + 1
          /\ FirstTried(bc.attempts) =
                SubSeq(bc.target_ids, 1,
                       IF bc.pc = "retry" THEN bc.i ELSE bc.i - 1)
    /\ Finished => FirstTried(last.arg.attempts) = last.arg.target_ids

\* C11's case: a finished fan-out over three targets whose first target
\* failed with an error and whose second failed at the retry.
C11_Witness ==
    /\ Finished
    /\ Len(last.arg.target_ids) = 3
    /\ Errored(1)
    /\ Len(TriesOf(2)) = 2
    /\ ~Succeeded(2)

\* The sends made to a target, among these attempts.
SendsTo(attempts, chat_id) ==
    SelectSeq(attempts, LAMBDA a : a.chat_id = chat_id)

\* C12: a rate-limit signal makes the engine sleep the mandated time once
\* and retry the target once: no target is sent to more than twice, a second
\* send is made exactly after a rate-limit signal at the first (which was
\* followed by the mandated sleep), and the result counts as sent the
\* targets whose last send succeeded and as failed all others, a retry that
\* met a second rate-limit signal included.
C12_RetryOnce ==
    /\ \A k \in 1..Len(bc.target_ids) :
          Len(SendsTo(bc.attempts, bc.target_ids[k])) <= 2
    /\ Finished =>
          LET K == Len(last.arg.target_ids)
          IN /\ \A k \in 1..K :
                   /\ Len(TriesOf(k)) \in {1, 2}
                   /\ Len(TriesOf(k)) = 2
                         <=> TriesOf(k)[1].outcome = "FloodWait"
                   /\ TriesOf(k)[1].outcome = "FloodWait"
                         => TriesOf(k)[1].sleep = "e.value"
             /\ last.arg.result_text["Successful"] =
                   Cardinality({k \in 1..K : Succeeded(k)})
             /\ last.arg.result_text["Failed"] =
                   Cardinality({k \in 1..K : ~Succeeded(k)})

\* C12's case: a finished fan-out where one target succeeded at the retry
\* and another met a second rate-limit signal at the retry.
C12_Witness ==
    /\ Finished
    /\ \E k \in 1..Len(last.arg.target_ids) :
          Len(TriesOf(k)) = 2 /\ Succeeded(k)
    /\ \E k \in 1..Len(last.arg.target_ids) :
          Len(TriesOf(k)) = 2 /\ TriesOf(k)[2].outcome = "FloodWait"

\* C13: a fan-out that has started on its resolved target set completes,
\* whatever the sends do, and at completion the admin has no step and no
\* draft.
C13_FanOutCompletes ==
    (bc.pc # "idle")
        ~> (/\ Finished
            /\ StateOf(ADMIN_USER_ID) = "None"
            /\ ADMIN_USER_ID \notin DOMAIN post_cache)

\* C14: the preview renders the draft exactly as it is delivered: every send
\* of a delivery carries the kind, body, formatting spans, media reference
\* and keyboard of the most recent preview of the draft, whatever the admin
\* did between that preview and the choice of the target.
C14_DeliveredAsPreviewed ==
    (bc.pc # "idle" /\ bc.user \in DOMAIN previewed) =>
        \A k \in 1..Len(bc.attempts) :
            bc.attempts[k].sent = previewed[bc.user]

\* C13's case: a fan-out over three targets is under way, the admin still
\* holding the step and the draft it was started from.
C13_Witness ==
    /\ bc.pc = "retry"
    /\ Len(bc.target_ids) = 3
    /\ bc.i = 2
    /\ StateOf(ADMIN_USER_ID) = "BUILDING_POST"
    /\ ADMIN_USER_ID \in DOMAIN post_cache

----------------------------------------------------------------------------
(* The registries: the admin adds and removes gate and post channels.     *)

\* What get_chat can answer: the channels, and channel c1 after it was
\* renamed.
RegChats ==
    Chats \cup { [id |-> "c1", title |-> "Uno", username |-> "uno"] }

\* A message naming a channel by text, one forwarded from channel c2, and a
\* photo that is neither.
RegMessages ==
    { TextMsg(T_hi),
      Msg("text", T_hi, NoText, <<>>, "None", "None",
          CHOOSE c \in Chats : c.id = "c2"),
      M_photo }

InitRegistry ==
    /\ InitMemory
    /\ InitTelegram
    /\ must_join_channels_col \in Registries(RegChannels)
    /\ post_channels_col \in Registries(RegChannels)
    /\ fileshares_col = <<>>

Reg(A) ==
    /\ A
    /\ Within(0, 0, RegChannels)'

NextRegistry ==
    \/ Reg(add_join_channel(ADMIN_USER_ID))
    \/ Reg(add_post_channel(ADMIN_USER_ID))
    \/ \E m \in RegMessages, res \in RegChats \cup {NoChat},
          db_ok \in BOOLEAN :
          Reg(hai_join_channel(ADMIN_USER_ID, m, res, db_ok))
    \/ \E m \in RegMessages, res \in RegChats \cup {NoChat},
          bot_status \in BotStatuses, db_ok \in BOOLEAN :
          Reg(hai_post_channel(ADMIN_USER_ID, m, res, bot_status, db_ok))
    \/ \E c \in ChatIds, db_ok \in BOOLEAN :
          Reg(confirm_remove_join_channel(ADMIN_USER_ID, c, db_ok))
    \/ \E c \in ChatIds, db_ok \in BOOLEAN :
          Reg(confirm_remove_post_channel(ADMIN_USER_ID, c, db_ok))

SpecRegistry == InitRegistry /\ [][NextRegistry]_vars

\* A collection holds a descriptor of the channel.
Holds(col, channel_id) ==
    \E i \in 1..Len(col) : col[i].channel_id = channel_id

\* C16: removing a channel id that a registry does not hold leaves that
\* registry and the other one unchanged; and after a removal the registry
\* does not hold the id, so that repeating the removal changes nothing more.
C16_RemoveAbsentNoOp ==
    [][ /\ (/\ last'.op = "confirm_remove_join_channel"
            /\ ~Holds(must_join_channels_col, last'.arg.channel_id))
           => /\ must_join_channels_col' = must_join_channels_col
              /\ post_channels_col' = post_channels_col
        /\ (/\ last'.op = "confirm_remove_post_channel"
            /\ ~Holds(post_channels_col, last'.arg.channel_id))
           => /\ must_join_channels_col' = must_join_channels_col
              /\ post_channels_col' = post_channels_col
        /\ (/\ last'.op = "confirm_remove_join_channel"
            /\ last'.reply = "channel_removed")
           => ~Holds(must_join_channels_col', last'.arg.channel_id)
        /\ (/\ last'.op = "confirm_remove_post_channel"
            /\ last'.reply = "channel_removed")
           => ~Holds(post_channels_col', last'.arg.channel_id)
      ]_vars

\* C16's case: a removal that deleted nothing, from a gate registry of two
\* channels, the post registry holding the id that was asked to go.
C16_Witness ==
    /\ last.op = "confirm_remove_join_channel"
    /\ last.reply = "channel_removed"
    /\ last.arg.deleted_count = 0
    /\ Len(must_join_channels_col) = 2
    /\ Holds(post_channels_col, last.arg.channel_id)

\* C17: removing a channel id that the registry does not hold gives the admin
\* a not-found signal, which is not the signal of a removal that took a
\* channel out.
C17_AbsentRemovalSignalled ==
    (/\ last.op \in {"confirm_remove_join_channel",
                     "confirm_remove_post_channel"}
     /\ last.arg.deleted_count = 0)
    => last.reply # "channel_removed"

\* A channel-input run of the admin: the step it was handled in.
ChannelInput(step) ==
    /\ last'.op = "handle_admin_inputs"
    /\ last'.user = ADMIN_USER_ID
    /\ last'.pre = step

\* C18: adding a channel whose id the target registry already holds is a
\* no-op with the "already exists" signal: the registry keeps its contents
\* and order, the stored descriptor stays as it was, and the answer is the
\* signal unless a check made before it refused or the database failed.
C18_DuplicateAddNoOp ==
    [][ /\ (/\ ChannelInput("WAITING_JOIN_CHANNEL_INPUT")
            /\ Holds(must_join_channels_col, last'.arg.chat.id))
           => /\ must_join_channels_col' = must_join_channels_col
              /\ post_channels_col' = post_channels_col
              /\ last'.reply \in {"already_in_list", "database_error"}
        /\ (/\ ChannelInput("WAITING_POST_CHANNEL_INPUT")
            /\ Holds(post_channels_col, last'.arg.chat.id))
           => /\ must_join_channels_col' = must_join_channels_col
              /\ post_channels_col' = post_channels_col
              /\ last'.reply \in {"already_in_list", "database_error",
                                  "not_an_admin", "error_accessing"}
              /\ last'.arg.bot_status = "ADMINISTRATOR"
                    => last'.reply \in {"already_in_list", "database_error"}
      ]_vars

\* C18's case: the "already exists" answer for a channel that the post
\* registry holds under another title than the message named it with.
C18_Witness ==
    /\ last.op = "handle_admin_inputs"
    /\ last.pre = "WAITING_POST_CHANNEL_INPUT"
    /\ last.reply = "already_in_list"
    /\ \E i \in 1..Len(post_channels_col) :
          /\ post_channels_col[i].channel_id = last.arg.chat.id
          /\ post_channels_col[i].title # last.arg.chat.title

\* C19: a descriptor enters the post registry only in a run whose capability
\* check answered that the bot is an administrator of the channel; when the
\* check answers another status or raises, the insertion is refused and the
\* post registry is unchanged.
C19_PostChannelNeedsAdmin ==
    [][ /\ (\E i \in 1..Len(post_channels_col') :
               \A j \in 1..Len(post_channels_col) :
                   post_channels_col'[i] # post_channels_col[j])
           => /\ ChannelInput("WAITING_POST_CHANNEL_INPUT")
              /\ last'.reply = "added"
              /\ last'.arg.bot_status = "ADMINISTRATOR"
              /\ post_channels_col' =
                    Append(post_channels_col,
                           [channel_id |-> last'.arg.chat.id,
                            title |-> last'.arg.chat.title,
                            username |-> last'.arg.chat.username])
        /\ (/\ ChannelInput("WAITING_POST_CHANNEL_INPUT")
            /\ last'.arg.bot_status \in {"MEMBER", "raised"})
           => /\ post_channels_col' = post_channels_col
              /\ last'.reply \in {"not_an_admin", "error_accessing"}
      ]_vars

\* C19's case: the bot is a plain member of a channel the post registry does
\* not hold, and the admin gets the "not an admin" answer.
C19_Witness ==
    /\ last.op = "handle_admin_inputs"
    /\ last.pre = "WAITING_POST_CHANNEL_INPUT"
    /\ last.reply = "not_an_admin"
    /\ ~Holds(post_channels_col, last.arg.chat.id)
    /\ Len(post_channels_col) < RegChannels

----------------------------------------------------------------------------
(* Composing: the admin starts posts, sends content and button lines.      *)

ComposeMessages ==
    {M_hi, TextMsg(T_btn), TextMsg(T_two), TextMsg(T_plain), M_photo,
     M_sticker, M_service}

Compose(A) ==
    /\ A
    /\ Within(ComposeButtons, 0, 0)'

NextCompose ==
    \/ Compose(start_new_post(ADMIN_USER_ID))
    \/ Compose(wiz_add_btn(ADMIN_USER_ID))
    \/ Compose(wiz_edit_text(ADMIN_USER_ID))
    \/ Compose(wiz_back_to_builder(ADMIN_USER_ID))
    \/ Compose(wiz_cancel(ADMIN_USER_ID))
    \/ \E m \in ComposeMessages : Compose(hai_post_content(ADMIN_USER_ID, m))
    \/ \E m \in ComposeMessages : Compose(hai_url_buttons(ADMIN_USER_ID, m))
    \/ \E m \in ComposeMessages : Compose(hai_text_edit(ADMIN_USER_ID, m))

SpecCompose == Init /\ [][NextCompose]_vars

\* C15: button lines of which none contains a hyphen append no button: the
\* draft is as it was, the step becomes Building and the answer confirms
\* zero buttons added.
C15_NoHyphenAddsNothing ==
    [][ (/\ last'.op = "handle_admin_inputs"
         /\ last'.user = ADMIN_USER_ID
         /\ last'.pre = "WAITING_URL_BUTTONS"
         /\ last'.arg.text # <<>>
         /\ \A i \in 1..Len(last'.arg.text) : last'.arg.text[i] # "-")
        => /\ last'.reply = "added_buttons"
           /\ last'.arg.added = 0
           /\ post_cache' = post_cache
           /\ ADMIN_USER_ID \in DOMAIN user_states'
           /\ user_states'[ADMIN_USER_ID] = "BUILDING_POST"
      ]_vars

\* C15's case: two lines without a hyphen were sent for a draft that has
\* buttons, and zero buttons were confirmed.
C15_Witness ==
    /\ last.op = "handle_admin_inputs"
    /\ last.pre = "WAITING_URL_BUTTONS"
    /\ last.reply = "added_buttons"
    /\ last.arg.text = T_plain
    /\ ADMIN_USER_ID \in DOMAIN post_cache
    /\ Len(post_cache[ADMIN_USER_ID].buttons) >= 2

\* C20: while content is awaited, an input with neither text nor media is
\* answered with the prompt again and changes nothing: the step stays and
\* no draft is created.
C20_NonContentReprompts ==
    (/\ last.op = "handle_admin_inputs"
     /\ last.user = ADMIN_USER_ID
     /\ last.pre = "WAITING_POST_CONTENT"
     /\ ~last.arg.content)
    => /\ StateOf(ADMIN_USER_ID) = "WAITING_POST_CONTENT"
       /\ ADMIN_USER_ID \notin DOMAIN post_cache

\* The lines of a text by their positions: where each line starts, where the
\* line starting at a ends, and the lines that hold a hyphen.
LineStarts(t) == {1} \cup {i + 1 : i \in {j \in 1..Len(t) : t[j] = "\n"}}
LineEnd(t, a) ==
    CHOOSE e \in (a - 1)..Len(t) :
        /\ e = Len(t) \/ t[e + 1] = "\n"
        /\ \A j \in a..e : t[j] # "\n"
HyphenLines(t) ==
    {a \in LineStarts(t) : \E j \in a..LineEnd(t, a) : t[j] = "-"}
FirstHyphen(t, a) ==
    CHOOSE h \in a..LineEnd(t, a) :
        t[h] = "-" /\ \A j \in a..(h - 1) : t[j] # "-"
\* t[a..b] without the blanks at its two ends.
Trimmed(t, a, b) ==
    LET solid == {j \in a..b : t[j] \notin Whitespace}
    IN IF solid = {} THEN <<>>
       ELSE SubSeq(t, CHOOSE j \in solid : \A k \in solid : j <= k,
                      CHOOSE j \in solid : \A k \in solid : k <= j)

\* C21: a text sent as button lines for a draft appends one button per line
\* that holds a hyphen, in line order and after the buttons the draft has:
\* the label is the trimmed text before the line's first hyphen, the url the
\* trimmed text after it.  Lines without a hyphen append nothing, the count
\* answered is the number appended, and the step becomes Building.
C21_HyphenLinesBecomeButtons ==
    [][ (/\ last'.op = "handle_admin_inputs"
         /\ last'.user = ADMIN_USER_ID
         /\ last'.pre = "WAITING_URL_BUTTONS"
         /\ last'.arg.text # <<>>
         /\ ADMIN_USER_ID \in DOMAIN post_cache)
        => LET t == last'.arg.text
               old == post_cache[ADMIN_USER_ID].buttons
               new == post_cache'[ADMIN_USER_ID].buttons
               n == Cardinality(HyphenLines(t))
           IN /\ last'.reply = "added_buttons"
              /\ last'.arg.added = n
              /\ Len(new) = Len(old) + n
              /\ SubSeq(new, 1, Len(old)) = old
              /\ \A a \in HyphenLines(t) :
                    LET k == Cardinality({b \in HyphenLines(t) : b <= a})
                        h == FirstHyphen(t, a)
                    IN new[Len(old) + k] =
                          <<Trimmed(t, a, h - 1),
                            Trimmed(t, h + 1, LineEnd(t, a))>>
              /\ post_cache' =
                    [post_cache EXCEPT ![ADMIN_USER_ID].buttons = new]
              /\ user_states'[ADMIN_USER_ID] = "BUILDING_POST"
      ]_vars

\* C21's case: three lines, the middle one without a hyphen and the last
\* with two, were sent for a draft that had a button.
C21_Witness ==
    /\ last.op = "handle_admin_inputs"
    /\ last.pre = "WAITING_URL_BUTTONS"
    /\ last.reply = "added_buttons"
    /\ last.arg.text = T_two
    /\ last.arg.added = 2
    /\ ADMIN_USER_ID \in DOMAIN post_cache
    /\ Len(post_cache[ADMIN_USER_ID].buttons) = 3

\* A title was received for a staged file and the record was stored: the
\* step from the state before to the state after.
TitleAttached ==
    /\ last'.op = "handle_admin_inputs"
    /\ last'.user = ADMIN_USER_ID
    /\ last'.pre = "WAITING_BUTTON_TITLE"
    /\ last'.reply \notin {"please_send_title", "error_saving"}
    /\ ADMIN_USER_ID \in DOMAIN post_cache
    /\ post_cache[ADMIN_USER_ID].temp_file # NoFile

\* What C22 says of such a step, but for the token's freshness.
Attaches ==
    LET old == post_cache[ADMIN_USER_ID]
        new == post_cache'[ADMIN_USER_ID]
        rec == fileshares_col'[Len(fileshares_col')]
    IN /\ last'.reply = "file_attached"
       /\ Len(fileshares_col') = Len(fileshares_col) + 1
       /\ SubSeq(fileshares_col', 1, Len(fileshares_col)) = fileshares_col
       /\ rec.file_id = old.temp_file.file_id
       /\ rec.file_type = old.temp_file.file_type
       /\ new.buttons =
             Append(old.buttons,
                    <<rec.button_title,
                      <<"https://t.me/", BotUsername, "?start=", rec.token>> >>)
       /\ new.attached_file_token = rec.token
       /\ new.temp_file = NoFile
       /\ post_cache' =
             [post_cache EXCEPT ![ADMIN_USER_ID].buttons = new.buttons,
                                ![ADMIN_USER_ID].attached_file_token = rec.token,
                                ![ADMIN_USER_ID].temp_file = NoFile]
       /\ user_states'[ADMIN_USER_ID] = "BUILDING_POST"

\* C22: a title received for a staged file stores exactly one file share
\* record, under a token no stored record has, with the staged file's id and
\* type; appends exactly one button (the title, the deep link of the token)
\* after the draft's buttons, which keep their order; sets
\* attached_file_token to the token; clears the staged file; and sets the
\* step to Building.
C22_TitleAttachesFile ==
    [][ TitleAttached
        => /\ Attaches
           /\ \A i \in 1..Len(fileshares_col) :
                 fileshares_col[i].token
                    # fileshares_col'[Len(fileshares_col')].token
      ]_vars

\* C22 without the token's freshness: everything else the claim says holds.
C22_ButFreshness == [][TitleAttached => Attaches]_vars

\* C23: when saving the file share record fails, the failure is answered
\* and that is all: nothing is stored, no button is appended,
\* attached_file_token is not set, and the staged file and the step are as
\* they were before the title was received.
C23_SaveFailureChangesNothing ==
    [][ (/\ last'.op = "handle_admin_inputs"
         /\ last'.user = ADMIN_USER_ID
         /\ last'.pre = "WAITING_BUTTON_TITLE"
         /\ last'.reply \notin {"please_send_title", "attach_expired",
                                "raised"}
         /\ ~last'.arg.saved)
        => /\ last'.reply = "error_saving"
           /\ fileshares_col' = fileshares_col
           /\ post_cache' = post_cache
           /\ user_states' = user_states
      ]_vars

\* C23's case: saving failed for a draft that has a button and a staged
\* file; the title is still awaited.
C23_Witness ==
    /\ last.op = "handle_admin_inputs"
    /\ last.pre = "WAITING_BUTTON_TITLE"
    /\ last.reply = "error_saving"
    /\ StateOf(ADMIN_USER_ID) = "WAITING_BUTTON_TITLE"
    /\ ADMIN_USER_ID \in DOMAIN post_cache
    /\ post_cache[ADMIN_USER_ID].temp_file # NoFile
    /\ post_cache[ADMIN_USER_ID].buttons # <<>>

\* C24: while a text edit is awaited for a draft, a message with text or
\* caption replaces the draft's text and entities by its own and sets the
\* step to Building; type, file_id, buttons and attached_file_token (and
\* the staged file) stay.  A message with neither is answered with the
\* prompt again and changes nothing.
C24_TextEditReplacesBody ==
    [][ (/\ last'.op = "handle_admin_inputs"
         /\ last'.user = ADMIN_USER_ID
         /\ last'.pre = "WAITING_TEXT_EDIT")
        => LET m == last'.arg
               payload == IF m.text # <<>> THEN m.text ELSE m.caption
           IN IF payload = <<>>
              THEN /\ last'.reply = "please_send_text"
                   /\ post_cache' = post_cache
                   /\ user_states' = user_states
              ELSE ADMIN_USER_ID \in DOMAIN post_cache
                   => /\ last'.reply = "text_updated"
                      /\ post_cache' =
                            [post_cache EXCEPT
                               ![ADMIN_USER_ID].text = payload,
                               ![ADMIN_USER_ID].entities = m.entities]
                      /\ user_states'[ADMIN_USER_ID] = "BUILDING_POST"
      ]_vars

\* C24's case: a photo's caption has replaced the text of a text draft that
\* has buttons; the draft is still a text draft.
C24_Witness ==
    /\ last.op = "handle_admin_inputs"
    /\ last.pre = "WAITING_TEXT_EDIT"
    /\ last.reply = "text_updated"
    /\ last.arg = M_photo
    /\ post_cache[ADMIN_USER_ID].type = "text"
    /\ post_cache[ADMIN_USER_ID].text = T_cap
    /\ post_cache[ADMIN_USER_ID].buttons # <<>>

\* C24's other case: a message without text and caption was answered with
\* the prompt while a draft was being edited.
C24_WitnessReprompt ==
    /\ last.op = "handle_admin_inputs"
    /\ last.pre = "WAITING_TEXT_EDIT"
    /\ last.reply = "please_send_text"
    /\ ADMIN_USER_ID \in DOMAIN post_cache

\* C25: removing the button at index i (from 0) of a draft with n buttons,
\* 0 <= i < n, leaves the other n - 1 buttons in their order and nothing
\* else of the draft changed; an index outside 0..n-1, or a removal without
\* a draft, is answered not-found and changes nothing.
C25_RemoveByIndex ==
    [][ (/\ last'.op = "delete_button_handler"
         /\ last'.user = ADMIN_USER_ID)
        => LET i == last'.arg
               has == ADMIN_USER_ID \in DOMAIN post_cache
               n == IF has THEN Len(post_cache[ADMIN_USER_ID].buttons) ELSE 0
           IN IF has /\ 0 <= i /\ i < n
              THEN LET old == post_cache[ADMIN_USER_ID].buttons
                       new == post_cache'[ADMIN_USER_ID].buttons
                   IN /\ last'.reply = "deleted"
                      /\ Len(new) = n - 1
                      /\ \A k \in 1..(n - 1) :
                            new[k] = old[IF k <= i THEN k ELSE k + 1]
                      /\ post_cache' =
                            [post_cache EXCEPT ![ADMIN_USER_ID].buttons = new]
              ELSE /\ last'.reply = "button_not_found"
                   /\ post_cache' = post_cache
      ]_vars

\* C25's case: the middle one of three buttons was removed.
C25_Witness ==
    /\ last.op = "delete_button_handler"
    /\ last.reply = "deleted"
    /\ last.arg = 1
    /\ Len(post_cache[ADMIN_USER_ID].buttons) = 2
    /\ post_cache[ADMIN_USER_ID].buttons[1]
          # post_cache[ADMIN_USER_ID].buttons[2]

\* C25's other cases: an index past the end of a draft's buttons, and a
\* removal without a draft, were answered not-found.
C25_WitnessPastEnd ==
    /\ last.op = "delete_button_handler"
    /\ last.reply = "button_not_found"
    /\ ADMIN_USER_ID \in DOMAIN post_cache
    /\ last.arg = Len(post_cache[ADMIN_USER_ID].buttons)
    /\ last.arg > 0

C25_WitnessNoDraft ==
    /\ last.op = "delete_button_handler"
    /\ last.reply = "button_not_found"
    /\ ADMIN_USER_ID \notin DOMAIN post_cache

\* The gate channels without a public handle.
Unlinkable == (1..Len(must_join_channels_col)) \ Linkable

\* C26: a gate channel without a public handle is not enforced.  No join
\* prompt has a button for it, and a stored token presented by somebody who
\* is in every gate channel that has a handle releases the file (every call
\* answering), whatever the requester's status in the channels without one.
C26_HandlelessNotEnforced ==
    Resolved =>
        /\ last.reply = "join_prompt" =>
              \A i \in Unlinkable, k \in 1..Len(last.arg.buttons) :
                 last.arg.buttons[k][1]
                    # <<"Join ", must_join_channels_col[i].title>>
        /\ (/\ StoredUnder(last.arg.token) # {}
            /\ last.arg.failing = {}
            /\ last.arg.fault = "none"
            /\ \A i \in Linkable :
                  ~Unjoined(last.user, must_join_channels_col[i].channel_id))
           => /\ last.reply = "file_released"
              /\ last.arg.released.token = last.arg.token

\* C26's case: the file released to the end user, who is banned from a gate
\* channel without a handle and a member of one with a handle.
C26_Witness ==
    /\ Resolved
    /\ last.user # ADMIN_USER_ID
    /\ last.reply = "file_released"
    /\ \E i \in Linkable :
          chat_member[must_join_channels_col[i].channel_id] = "MEMBER"
    /\ \E i \in Unlinkable :
          chat_member[must_join_channels_col[i].channel_id] = "BANNED"

\* C26's other case: a join prompt for a registry that holds a channel
\* without a handle the user is not in.
C26_WitnessPrompt ==
    /\ Resolved
    /\ last.reply = "join_prompt"
    /\ \E i \in Unlinkable :
          Unjoined(last.user, must_join_channels_col[i].channel_id)

\* C27: within a fan-out the fixed delay (sleep 0.5) follows the attempt on
\* each target before the first try on the next target, whatever the
\* attempt's outcome: a success, a failure that is no rate limit, or a retry
\* after a rate limit.
C27_DelayBetweenTargets ==
    \A k \in 1..(Len(bc.attempts) - 1) :
        bc.attempts[k + 1].try = 1 => bc.attempts[k].sleep = "0.5"

\* C28: an input for a draft that is gone never ends in an unhandled error:
\* in the steps that await a text edit, button lines, a file or a button
\* title, the handler finds the draft absent before using it and leaves the
\* session in Building or idle, or as it was with a notice.
C28_DesyncNeverRaises ==
    (/\ last.op = "handle_admin_inputs"
     /\ last.user = ADMIN_USER_ID
     /\ last.pre \in {"WAITING_TEXT_EDIT", "WAITING_URL_BUTTONS",
                      "WAITING_FILE_ATTACH", "WAITING_BUTTON_TITLE"}
     /\ ADMIN_USER_ID \notin DOMAIN post_cache)
    => last.reply # "raised"

\* C29: in the two channel-input steps, an input that names no channel (a
\* text get_chat cannot resolve, or a message that is neither forwarded from
\* a channel nor a text) is answered with the prompt again: the step and
\* both registries are as they were.
C29_NoChannelReprompts ==
    [][ (/\ last'.op = "handle_admin_inputs"
         /\ last'.user = ADMIN_USER_ID
         /\ last'.pre \in {"WAITING_JOIN_CHANNEL_INPUT",
                           "WAITING_POST_CHANNEL_INPUT"}
         /\ last'.arg.chat = NoChat)
        => /\ user_states' = user_states
           /\ must_join_channels_col' = must_join_channels_col
           /\ post_channels_col' = post_channels_col
      ]_vars

\* C29 for the text that cannot be resolved alone: that half holds.
C29_UnresolvedReprompts ==
    [][ (/\ last'.op = "handle_admin_inputs"
         /\ last'.user = ADMIN_USER_ID
         /\ last'.pre \in {"WAITING_JOIN_CHANNEL_INPUT",
                           "WAITING_POST_CHANNEL_INPUT"}
         /\ last'.reply = "could_not_find")
        => /\ user_states' = user_states
           /\ must_join_channels_col' = must_join_channels_col
           /\ post_channels_col' = post_channels_col
      ]_vars

----------------------------------------------------------------------------
(* Access: the admin and an end user both send updates to the bot.         *)

\* An update no handler is registered for: a message of somebody else than
\* the admin that is no /start, or a press of an admin button by somebody
\* else.  Every filter fails and nothing runs.
unhandled(u) ==
    /\ ~IsAdmin(u)
    /\ last' = Ev("unhandled", u, "None", <<>>)
    /\ UNCHANGED <<user_states, post_cache, must_join_channels_col,
                   post_channels_col, fileshares_col, chat_member,
                   prompted, previewed, bc, parked>>

\* user_about, user_help, user_close: an alert, or the message deleted.
user_callbacks(u) ==
    /\ last' = Ev("user_callbacks", u, "alert", <<>>)
    /\ UNCHANGED <<user_states, post_cache, must_join_channels_col,
                   post_channels_col, fileshares_col, chat_member,
                   prompted, previewed, bc, parked>>

\* An update of the two is handled while the draft and the collections stay
\* within the sizes of the model.
Access(A) ==
    /\ A
    /\ Within(AccessButtons, AccessShares, AccessChannels)'

\* The end user's updates, and the handlers of the admin that write a step,
\* a draft, a registry or the vault, each offered to both users.  (The
\* broadcast, which runs as the admin once started, is left to the delivery
\* runs.)
NextAccess ==
    \/ \E u \in Users : Access(unhandled(u))
    \/ \E u \in Users : Access(user_callbacks(u))
    \/ \E u \in Users : Access(user_start_welcome(u))
    \/ \E u \in Users, token \in WizTokens :
          Access(user_start_handler(u, token, {}, "none"))
    \/ \E u \in Users : Access(add_join_channel(u))
    \/ \E u \in Users : Access(add_post_channel(u))
    \/ \E u \in Users : Access(start_new_post(u))
    \/ \E u \in Users : Access(wiz_attach_file(u))
    \/ \E u \in Users : Access(wiz_add_btn(u))
    \/ \E u \in Users : Access(wiz_edit_text(u))
    \/ \E u \in Users : Access(wiz_back_attach_file(u))
    \/ \E u \in Users : Access(wiz_back_to_builder(u))
    \/ \E u \in Users : Access(admin_cancel_action(u))
    \/ \E u \in Users : Access(wiz_cancel(u))
    \/ \E u \in Users, i \in 0..AccessButtons :
          Access(delete_button_handler(u, i))
    \/ \E u \in Users, c \in WizChats :
          Access(confirm_remove_join_channel(u, c.id, TRUE))
    \/ \E u \in Users, c \in WizChats :
          Access(confirm_remove_post_channel(u, c.id, TRUE))
    \/ \E u \in Users :
          Access(handle_admin_inputs(u, WizMessages, WizChats, WizTokens))

SpecAccess == Init /\ [][NextAccess]_vars

\* C30: the wizard is the admin's alone.  No update of anybody else changes
\* a step, a draft, a registry or the file share records, and resolving a
\* token changes none of them either, whoever presents it.
C30_AdminOnly ==
    [][ (last'.user # ADMIN_USER_ID \/ last'.op = "user_start_handler")
        => UNCHANGED <<user_states, post_cache, must_join_channels_col,
                       post_channels_col, fileshares_col>>
      ]_vars

\* C30's case: the end user presented the token of a stored file while the
\* admin was in a wizard step with a draft and both registries held a
\* channel.
C30_Witness ==
    /\ last.op = "user_start_handler"
    /\ last.user # ADMIN_USER_ID
    /\ last.arg.token \in {fileshares_col[i].token :
                             i \in 1..Len(fileshares_col)}
    /\ ADMIN_USER_ID \in DOMAIN user_states
    /\ ADMIN_USER_ID \in DOMAIN post_cache
    /\ must_join_channels_col # <<>>
    /\ post_channels_col # <<>>

\* C30's other cases: an update of the end user that no handler takes, and
\* the admin presenting a token, both while the admin has a draft.
C30_WitnessUnhandled ==
    /\ last.op = "unhandled"
    /\ ADMIN_USER_ID \in DOMAIN user_states
    /\ ADMIN_USER_ID \in DOMAIN post_cache

C30_WitnessAdminToken ==
    /\ last.op = "user_start_handler"
    /\ last.user = ADMIN_USER_ID
    /\ last.reply = "file_released"
    /\ ADMIN_USER_ID \in DOMAIN user_states
    /\ ADMIN_USER_ID \in DOMAIN post_cache

\* C31: a fan-out is started only for a draft that has been previewed (and
\* whose preview's Send was pressed): no delivery starts from idle, from the
\* content step, from the builder or from an editing step without a preview
\* of the draft delivered.
C31_DeliveryFollowsPreview ==
    bc.pc # "idle" => bc.user \in DOMAIN previewed

----------------------------------------------------------------------------
(* Two channel inputs in flight: the dispatcher runs the handlers of         *)
(* different updates as separate tasks, so a second input can be handled     *)
(* whole while the first is suspended between find_one and insert_one.       *)

RaceChannels == 2

InitRace ==
    /\ InitMemory
    /\ InitTelegram
    /\ must_join_channels_col \in Registries(1)
    /\ post_channels_col \in Registries(1)
    /\ fileshares_col = <<>>

Race(A) ==
    /\ A
    /\ Within(0, 0, RaceChannels)'

NextRace ==
    \/ Race(add_join_channel(ADMIN_USER_ID))
    \/ Race(add_post_channel(ADMIN_USER_ID))
    \/ \E m \in RegMessages, res \in RegChats \cup {NoChat} :
          Race(hai_join_channel(ADMIN_USER_ID, m, res, TRUE))
    \/ \E m \in RegMessages, res \in RegChats \cup {NoChat} :
          Race(hai_post_channel(ADMIN_USER_ID, m, res, "ADMINISTRATOR", TRUE))
    \/ \E m \in RegMessages, res \in RegChats \cup {NoChat} :
          Race(hai_join_channel_find(ADMIN_USER_ID, m, res))
    \/ Race(hai_join_channel_insert)
    \/ \E m \in RegMessages, res \in RegChats \cup {NoChat} :
          Race(hai_post_channel_find(ADMIN_USER_ID, m, res, "ADMINISTRATOR"))
    \/ Race(hai_post_channel_insert)
    \/ \E c \in ChatIds :
          Race(confirm_remove_join_channel(ADMIN_USER_ID, c, TRUE))
    \/ \E c \in ChatIds :
          Race(confirm_remove_post_channel(ADMIN_USER_ID, c, TRUE))

SpecRace == InitRace /\ [][NextRace]_vars

\* C32: neither registry ever holds two descriptors with the same channel_id,
\* also when two add-channel inputs for one channel are handled interleaved
\* (the second one's find_one answered before the first one's insert_one).
C32_ChannelIdUnique ==
    \A col \in {must_join_channels_col, post_channels_col} :
        \A i, j \in 1..Len(col) :
            i # j => ChannelIdsOf(col)[i] # ChannelIdsOf(col)[j]

----------------------------------------------------------------------------
(* Two button titles in flight: a second title message can be handled      *)
(* whole while the handler of the first is suspended between reading the    *)
(* staged file and clearing it.                                             *)

AttachShares == 2

Attach(A) ==
    /\ A
    /\ Within(AttachShares, AttachShares, 0)'

\* The admin has composed a draft and is in the builder; nothing is stored.
InitAttach ==
    /\ user_states = Put(EmptyDict, ADMIN_USER_ID, "BUILDING_POST")
    /\ post_cache = Put(EmptyDict, ADMIN_USER_ID, NewCache(M_hi))
    /\ bc = NoBroadcast
    /\ parked = NoTask
    /\ last = NoEvent
    /\ InitTelegram
    /\ InitEmptyDb

NextAttach ==
    \/ Attach(wiz_attach_file(ADMIN_USER_ID))
    \/ \E m \in VaultMessages : Attach(hai_file_attach(ADMIN_USER_ID, m))
    \/ \E m \in VaultMessages, token \in generate_random_token :
          Attach(hai_button_title(ADMIN_USER_ID, m, token, TRUE))
    \/ \E m \in VaultMessages, token \in generate_random_token :
          Attach(hai_button_title_read(ADMIN_USER_ID, m, token))
    \/ Attach(hai_button_title_save)

SpecAttach == InitAttach /\ [][NextAttach]_vars

\* The file staged in the admin's draft, NoFile when there is no draft.
StagedNow ==
    IF ADMIN_USER_ID \in DOMAIN post_cache
    THEN post_cache[ADMIN_USER_ID].temp_file ELSE NoFile

\* The number of buttons of the admin's draft.
ButtonCount ==
    IF ADMIN_USER_ID \in DOMAIN post_cache
    THEN Len(post_cache[ADMIN_USER_ID].buttons) ELSE 0

\* C34: a staged file yields at most one record and one button: every step
\* that stores a record or appends a button takes the file that is staged at
\* that moment and leaves none staged, also when a second title message is
\* handled while the first is between reading the staged file and clearing
\* it.
C34_OneRecordPerStagedFile ==
    [][(\/ Len(fileshares_col') > Len(fileshares_col)
        \/ (/\ ADMIN_USER_ID \in DOMAIN post_cache
            /\ ADMIN_USER_ID \in DOMAIN post_cache'
            /\ Len(post_cache'[ADMIN_USER_ID].buttons) > ButtonCount))
       => /\ StagedNow # NoFile
          /\ StagedNow' = NoFile
          /\ Len(fileshares_col') = Len(fileshares_col) + 1
          /\ fileshares_col'[Len(fileshares_col')].file_id = StagedNow.file_id
          /\ ButtonCount' = ButtonCount + 1]_vars

----------------------------------------------------------------------------
(* Updates during a fan-out: the dispatcher takes up the admin's next       *)
(* update while execute_broadcast is suspended in a send or a sleep.        *)

OverlapTargets == 2

OverlapOutcomes == {"sent", "PeerIdInvalid"}

InitOverlap ==
    /\ user_states = [u \in {ADMIN_USER_ID} |-> "BUILDING_POST"]
    /\ post_cache = [u \in {ADMIN_USER_ID} |-> NewCache(M_hi)]
    /\ bc = NoBroadcast
    /\ parked = NoTask
    /\ last = NoEvent
    /\ InitTelegram
    /\ must_join_channels_col = <<>>
    /\ post_channels_col \in Registries(OverlapTargets)
    /\ fileshares_col = <<>>

NextOverlap ==
    \/ start_new_post(ADMIN_USER_ID)
    \/ hai_post_content(ADMIN_USER_ID, M_photo)
    \/ wiz_edit_text(ADMIN_USER_ID)
    \/ hai_text_edit(ADMIN_USER_ID, TextMsg(T_plain))
    \/ execute_broadcast(ADMIN_USER_ID, "ALL", TRUE)
    \/ \E outcome \in OverlapOutcomes : bc_send(outcome)
    \/ bc_finish
    \/ bc_switch

SpecOverlap == InitOverlap /\ [][NextOverlap]_vars

\* The fan-outs in progress.
Running ==
    {b \in {bc, parked.run} : b.pc # "idle"}

\* The targets a fan-out has sent the post to.
SentTo(b) ==
    {b.attempts[k].chat_id :
        k \in {x \in 1..Len(b.attempts) : b.attempts[x].outcome = "sent"}}

\* C33: at most one fan-out runs for one draft: two send-target presses for
\* the same draft, handled interleaved, never send the post to the same
\* target twice.
C33_OneFanOutPerDraft ==
    ~(/\ bc.pc # "idle"
      /\ parked.op = "execute_broadcast"
      /\ bc.live
      /\ parked.run.live
      /\ bc.user = parked.run.user
      /\ SentTo(bc) \cap SentTo(parked.run) # {})

\* C35: within one fan-out every target receives the same body, spans, media
\* and buttons, whatever the wizard handles while the fan-out is in progress.
C35_DraftReadOnly ==
    \A b \in Running :
        \A k, l \in 1..Len(b.attempts) :
            b.attempts[k].sent = b.attempts[l].sent

\* C36: the completion of a fan-out clears only the draft and step of its own
\* delivery: when the admin has started a new draft in the meantime (the
\* fan-out's draft is no longer the one the session holds), the session's
\* draft and step are the same after the completion.
C36_CompletionKeepsNewDraft ==
    [][(/\ bc.pc = "loop"
        /\ bc.i > Len(bc.target_ids)
        /\ ~bc.live
        /\ bc'.pc = "idle"
        /\ last' # last)
       => /\ post_cache' = post_cache
          /\ user_states' = user_states]_vars

----------------------------------------------------------------------------
(* The two counters of a fan-out, checked under SpecDeliver.                *)

\* C37: each target adds exactly one to exactly one of the two counters:
\* while the loop runs, success + failed is the number of targets done with,
\* and for a completed fan-out over K targets the result reports
\* Successful + Failed = K.
C37_SentPlusFailed ==
    /\ bc.pc # "idle" => bc.success + bc.failed = bc.i - 1
    /\ last.op = "bc_finish"
       => last.arg.result_text.Successful + last.arg.result_text.Failed
             = Len(last.arg.target_ids)

\* A fan-out over several targets completed with sends that succeeded, sends
\* that failed and a retry after FloodWait.
C37_Witness ==
    /\ last.op = "bc_finish"
    /\ Len(last.arg.target_ids) >= 2
    /\ last.arg.result_text.Successful >= 1
    /\ last.arg.result_text.Failed >= 1
    /\ \E k \in 1..Len(last.arg.attempts) : last.arg.attempts[k].try = 2

----------------------------------------------------------------------------
(* The session's step against its draft, checked under Spec.                *)

\* The steps in which the admin is building a post.
DraftSteps ==
    {"BUILDING_POST", "WAITING_TEXT_EDIT", "WAITING_URL_BUTTONS",
     "WAITING_FILE_ATTACH", "WAITING_BUTTON_TITLE"}

\* C38: the step and the draft are consistent in every state: a draft exists
\* exactly when the step is the builder or one of its editing steps, and none
\* exists with no step, while content is awaited or during a channel input.
C38_StepDraftConsistent ==
    (ADMIN_USER_ID \in DOMAIN post_cache)
       <=> (ADMIN_USER_ID \in DOMAIN user_states
            /\ user_states[ADMIN_USER_ID] \in DraftSteps)

\* The admin's draft outlives the step: a channel input is awaited while the
\* draft is still held.
C38_NoDraftDuringChannelInput ==
    ~(/\ ADMIN_USER_ID \in DOMAIN post_cache
      /\ last.op = "add_join_channel"
      /\ last.pre = "BUILDING_POST"
      /\ StateOf(ADMIN_USER_ID) = "WAITING_JOIN_CHANNEL_INPUT")

----------------------------------------------------------------------------
(* The destination list against the registry: the admin has a draft, the    *)
(* send menu has listed the two post channels, and channels are removed     *)
(* before a target is pressed.                                              *)

\* The post channels the send menu in the admin's chat lists.
ListedChannels ==
    << Descriptor(CHOOSE c \in Chats : c.id = "c1"),
       Descriptor(CHOOSE c \in Chats : c.id = "c2") >>

ListedTargets ==
    {ListedChannels[k].channel_id : k \in 1..Len(ListedChannels)} \cup {"ALL"}

InitTargets ==
    /\ user_states = [u \in {ADMIN_USER_ID} |-> "BUILDING_POST"]
    /\ post_cache = [u \in {ADMIN_USER_ID} |-> NewCache(M_hi)]
    /\ bc = NoBroadcast
    /\ parked = NoTask
    /\ last = NoEvent
    /\ InitTelegram
    /\ must_join_channels_col = <<>>
    /\ post_channels_col = ListedChannels
    /\ fileshares_col = <<>>

NextTargets ==
    \/ \E db_ok \in BOOLEAN :
          wiz_send_menu(ADMIN_USER_ID, db_ok) /\ bc.pc = "idle"
    \/ \E c \in ListedTargets \ {"ALL"}, db_ok \in BOOLEAN :
          confirm_remove_post_channel(ADMIN_USER_ID, c, db_ok)
    \/ \E target \in ListedTargets, db_ok \in BOOLEAN :
          execute_broadcast(ADMIN_USER_ID, target, db_ok)
    \/ \E outcome \in OverlapOutcomes : bc_send(outcome)
    \/ bc_finish

SpecTargets == InitTargets /\ [][NextTargets]_vars

\* C39: every target of a fan-out is a channel the post-channel registry
\* holds when the send-target choice is handled, for one channel as for
\* "ALL", also when the channel was removed after the list was shown.
C39_TargetsInRegistry ==
    [][(bc.pc = "idle" /\ bc'.pc = "loop")
       => \A k \in 1..Len(bc'.target_ids) :
             \E i \in 1..Len(post_channels_col) :
                post_channels_col[i].channel_id = bc'.target_ids[k]]_vars

====
